---- MODULE Spec2Model ----
(***************************************************************************)
(* ziel: a two-player networked battleship game.                           *)
(*                                                                         *)
(* The module models the board logic (src/src/logic.rs), the wire codec    *)
(* (src/src/prot.rs) and the server (src/src/server.rs): one Middleware    *)
(* task per connection, one Instance (the match coordinator) per match,    *)
(* the two mpsc channels between them and the two TCP streams to the       *)
(* peers.  The peers are the environment.                                  *)
(***************************************************************************)
EXTENDS Integers, Sequences, FiniteSets, TLC

(***************************************************************************)
(* Bounds of the model (not program constants).                            *)
(***************************************************************************)
\* how many times in a match the peers fire at water
MaxMiss == 2
\* a peer fires at water only while the board it fires at has fewer than
\* MissWindow ship cells hit
MissWindow == 2

(***************************************************************************)
(* Option and Result values.                                               *)
(***************************************************************************)
None == <<>>
Some(v) == <<v>>
IsSome(o) == Len(o) = 1
Unwrap(o) == o[1]

Ok(v) == [ok |-> TRUE, val |-> v]
Err(e) == [ok |-> FALSE, err |-> e]

U8 == 256

(***************************************************************************)
(* logic.rs: Position                                                      *)
(***************************************************************************)
GRID == 10

\* Position::coords: (self.0 & 0x0f, self.0 >> 4)
coords(p) == <<p % 16, p \div 16>>

\* fromcoords without the test x < 10 && y < 10
fromcoords_unchecked(x, y) == Some((x + ((y * 16) % U8)) % U8)

\* Position::fromcoords: Some(Position(x + (y << 4))) iff x < 10 && y < 10
fromcoords(x, y) ==
    IF x < GRID /\ y < GRID THEN Some((x + ((y * 16) % U8)) % U8) ELSE None

\* Position::frombyte
frombyte(i) == fromcoords(coords(i)[1], coords(i)[2])

\* Position::byte that keeps only the low nibble
byte_lownibble(p) == p % 16

\* Position::byte
byte(p) == p

\* Position::default (derive(Default) on a u8 newtype)
PositionDefault == 0

(***************************************************************************)
(* logic.rs: ShipPlan, Ship                                                *)
(* A ShipPlan is [horizontal, pos, len]; a Ship is a ShipPlan that passed  *)
(* Ship::try_from.                                                         *)
(***************************************************************************)
Horizontal(pos, len) == [horizontal |-> TRUE, pos |-> pos, len |-> len]
Vertical(pos, len) == [horizontal |-> FALSE, pos |-> pos, len |-> len]

\* TryFrom<ShipPlan> for Ship: the u8 sum coordinate + len; with overflow
\* checks off (release build) the sum wraps modulo 256
ShipTryFrom(plan) ==
    IF plan.horizontal
    THEN (coords(plan.pos)[1] + plan.len) % U8 <= GRID
    ELSE (coords(plan.pos)[2] + plan.len) % U8 <= GRID

\* ShipPositionIter: the positions of a ship in the order the iterator
\* yields them, from the far end (offset len-1) back to the anchor
ShipPositions(ship) ==
    LET x == coords(ship.pos)[1]
        y == coords(ship.pos)[2]
    IN  [k \in 1..ship.len |->
            IF ship.horizontal
            THEN Unwrap(fromcoords(x + (ship.len - k), y))
            ELSE Unwrap(fromcoords(x, y + (ship.len - k)))]

Range(s) == {s[k] : k \in DOMAIN s}

ShipCells(ship) == Range(ShipPositions(ship))

(***************************************************************************)
(* logic.rs: Ships (the fleet)                                             *)
(***************************************************************************)
SHIPLENGTHS == <<2, 3, 3, 4, 5>>

\* the find_map without the test of the found flag
FindLenSlot_refound(shiplenmap, shiplen) ==
    LET cand == {j \in 1..Len(SHIPLENGTHS) : SHIPLENGTHS[j] = shiplen}
    IN  IF cand = {} THEN 0 ELSE CHOOSE j \in cand : \A k \in cand : j <= k

\* the find_map over zip(shiplenmap, SHIPLENGTHS): first slot not yet found
\* whose length is shiplen; 0 when there is none
FindLenSlot(shiplenmap, shiplen) ==
    LET cand == {j \in 1..Len(SHIPLENGTHS) :
                    ~shiplenmap[j] /\ SHIPLENGTHS[j] = shiplen}
    IN  IF cand = {} THEN 0 ELSE CHOOSE j \in cand : \A k \in cand : j <= k

\* the inner loop `for pos in ship`: TRUE iff a cell of the ship is already
\* in shipmap or is yielded twice
RECURSIVE MarkOverlaps(_, _, _)
MarkOverlaps(cells, k, shipmap) ==
    IF k > Len(cells) THEN FALSE
    ELSE IF cells[k] \in shipmap THEN TRUE
    ELSE MarkOverlaps(cells, k + 1, shipmap \cup {cells[k]})

\* TryFrom<[Ship; 5]> for Ships, from ship i on
RECURSIVE ShipsWalk(_, _, _, _)
ShipsWalk(ships, i, shipmap, shiplenmap) ==
    IF i > Len(ships) THEN Ok(ships)
    ELSE LET slot == FindLenSlot(shiplenmap, ships[i].len)
         IN  IF slot = 0 THEN Err("InvalidShipLengths")
             ELSE IF MarkOverlaps(ShipPositions(ships[i]), 1, shipmap)
             THEN Err("ShipOverlap")
             ELSE ShipsWalk(ships, i + 1,
                            shipmap \cup ShipCells(ships[i]),
                            [shiplenmap EXCEPT ![slot] = TRUE])

ShipsTryFrom(ships) ==
    ShipsWalk(ships, 1, {}, [j \in 1..Len(SHIPLENGTHS) |-> FALSE])

(***************************************************************************)
(* logic.rs: Board                                                         *)
(* shipmap maps a position to the index (0-based, as in the code) of the   *)
(* ship covering it, or to U8MAX (ShipReference::empty).  hitmap is the    *)
(* set of positions whose hitmap entry is true.                            *)
(***************************************************************************)
U8MAX == 255

Positions == {Unwrap(fromcoords(x, y)) : x \in 0..(GRID - 1), y \in 0..(GRID - 1)}

\* Board::new: later ships overwrite earlier ones in shipmap
BoardNew(ships) ==
    [ships   |-> ships,
     shipmap |-> [p \in Positions |->
                    LET cover == {i \in 1..Len(ships) : p \in ShipCells(ships[i])}
                    IN  IF cover = {} THEN U8MAX
                        ELSE (CHOOSE i \in cover : \A j \in cover : j <= i) - 1],
     hitmap  |-> {}]

\* the `sunken` argument computed on the hit map before the mark
ShipSunken_beforemark(board, hitmap, shipref) ==
    \A p \in ShipCells(board.ships[shipref + 1]) : p \in board.hitmap

\* the `sunken` argument of AttackInfo::Hit, on the hit map after the mark
ShipSunken(board, hitmap, shipref) ==
    \A p \in ShipCells(board.ships[shipref + 1]) : p \in hitmap

Miss == [kind |-> "Miss", sunken |-> FALSE]
Hit(sunken) == [kind |-> "Hit", sunken |-> sunken]

\* Board::target without the test of the cell's hitmap entry
target_norepeat(board, pos) ==
    LET marked == [board EXCEPT !.hitmap = @ \cup {pos}]
    IN  IF board.shipmap[pos] # U8MAX
        THEN <<Some(Hit(ShipSunken(board, marked.hitmap, board.shipmap[pos]))), marked>>
        ELSE <<Some(Miss), marked>>

\* Board::target that clears the hitmap entry of a cell targeted again
target_toggle(board, pos) ==
    LET marked == [board EXCEPT !.hitmap = @ \cup {pos}]
    IN  IF pos \in board.hitmap THEN <<None, [board EXCEPT !.hitmap = @ \ {pos}]>>
        ELSE IF board.shipmap[pos] # U8MAX
        THEN <<Some(Hit(ShipSunken(board, marked.hitmap, board.shipmap[pos]))), marked>>
        ELSE <<Some(Miss), marked>>

\* Board::target: the pair <<returned Option<AttackInfo>, board afterwards>>
target(board, pos) ==
    LET marked == [board EXCEPT !.hitmap = @ \cup {pos}]
    IN  IF pos \in board.hitmap THEN <<None, marked>>
        ELSE IF board.shipmap[pos] # U8MAX
        THEN <<Some(Hit(ShipSunken(board, marked.hitmap, board.shipmap[pos]))), marked>>
        ELSE <<Some(Miss), marked>>

\* allsunken with any in place of the outer all: some ship is sunken
allsunken_anyship(board) ==
    \E i \in 1..Len(board.ships) :
        \A p \in ShipCells(board.ships[i]) : p \in board.hitmap

\* Board::allsunken
allsunken(board) ==
    \A i \in 1..Len(board.ships) :
        \A p \in ShipCells(board.ships[i]) : p \in board.hitmap

(***************************************************************************)
(* prot.rs: raw frames and the two message vocabularies                    *)
(* A RawMessage is [typemarker, body]; body is a sequence of bytes.        *)
(***************************************************************************)
RawMessage(typemarker, body) == [typemarker |-> typemarker, body |-> body]

\* b"HELO", b"ACK", b"INVALID", b"TERM", b"REQ SHIPP", b"TARG", b"INFO TARG",
\* b"VICTORY", b"LOSS" as ASCII bytes
HANDSHAKE == RawMessage(1, <<72, 69, 76, 79>>)
ACKNOWLEDGMENT == RawMessage(2, <<65, 67, 75>>)
INVALID == RawMessage(3, <<73, 78, 86, 65, 76, 73, 68>>)
TERMINATECONNECTION == RawMessage(4, <<84, 69, 82, 77>>)
SHIPPOSITIONS == 100
REQUESTSHIPPOSITIONS == RawMessage(SHIPPOSITIONS, <<82, 69, 81, 32, 83, 72, 73, 80, 80>>)
TARGET == 101
REQUESTTARGET == RawMessage(TARGET, <<84, 65, 82, 71>>)
INFORMTARGETSELECTION == RawMessage(150, <<73, 78, 70, 79, 32, 84, 65, 82, 71>>)
INFORMTARGETHIT == 151
INFORMTARGETMISS == 152
INFORMVICTORY == RawMessage(153, <<86, 73, 67, 84, 79, 82, 89>>)
INFORMLOSS == RawMessage(154, <<76, 79, 83, 83>>)

\* ClientMessage
ClientHandshake == [type |-> "Handshake"]
ClientAcknowledge == [type |-> "Acknowledge"]
ClientShipPositions(ships) == [type |-> "ShipPositions", ships |-> ships]
ClientTarget(pos) == [type |-> "Target", pos |-> pos]

\* ServerMessage, and CommandRequest, which has the same variants except
\* Invalid and names RequestShipPositions RequestShips
Plain(type) == [type |-> type]
InformTargetHitYou(pos, sunken) ==
    [type |-> "InformTargetHitYou", pos |-> pos, sunken |-> sunken]
InformTargetHitOpp(pos, sunken) ==
    [type |-> "InformTargetHitOpp", pos |-> pos, sunken |-> sunken]
InformTargetMissYou(pos) == [type |-> "InformTargetMissYou", pos |-> pos]
InformTargetMissOpp(pos) == [type |-> "InformTargetMissOpp", pos |-> pos]

\* prot::Error
MessageError(message) ==
    [kind |-> "Message", typemarker |-> message.typemarker,
     sizemarker |-> Len(message.body), body |-> message.body]
NetworkingError == [kind |-> "Networking"]
UnsuccessfulHandshake == [kind |-> "UnsuccessfulHandshake"]

\* the encoding of a bool with the two bytes exchanged
BoolByte_negated(b) == IF b THEN 0 ELSE 1

BoolByte(b) == IF b THEN 1 ELSE 0

\* the closure of array::from_fn in the ShipPositions arm, for ship i (1..5):
\* the ship plan read from the body, and whether it set the error flag
PlanFromBody(body, i) ==
    LET horizontal == body[(i - 1) * 3 + 1] # 0
        posopt == frombyte(body[(i - 1) * 3 + 2])
        pos == IF IsSome(posopt) THEN Unwrap(posopt) ELSE PositionDefault
        len == body[(i - 1) * 3 + 3]
        shipplan == IF horizontal THEN Horizontal(pos, len) ELSE Vertical(pos, len)
    IN  [plan |-> shipplan, error |-> ~IsSome(posopt) \/ ~ShipTryFrom(shipplan)]

\* TryFrom<RawMessage> for ClientMessage
ClientTryFrom(message) ==
    IF message = HANDSHAKE THEN Ok(ClientHandshake)
    ELSE IF message = ACKNOWLEDGMENT THEN Ok(ClientAcknowledge)
    ELSE IF message.typemarker = SHIPPOSITIONS /\ Len(message.body) = 15
    THEN LET read == [i \in 1..5 |-> PlanFromBody(message.body, i)]
             positions == [i \in 1..5 |-> read[i].plan]
         IN  IF \E i \in 1..5 : read[i].error THEN Err(MessageError(message))
             ELSE IF ShipsTryFrom(positions).ok
             THEN Ok(ClientShipPositions(positions))
             ELSE Err(MessageError(message))
    ELSE IF message.typemarker = TARGET /\ Len(message.body) = 1
    THEN IF IsSome(frombyte(message.body[1]))
         THEN Ok(ClientTarget(Unwrap(frombyte(message.body[1]))))
         ELSE Err(MessageError(message))
    ELSE Err(MessageError(message))

\* From<ClientMessage> for RawMessage
ClientToRaw(message) ==
    CASE message.type = "Handshake" -> HANDSHAKE
      [] message.type = "Acknowledge" -> ACKNOWLEDGMENT
      [] message.type = "ShipPositions" ->
            RawMessage(SHIPPOSITIONS,
                [k \in 1..15 |->
                    LET ship == message.ships[((k - 1) \div 3) + 1]
                    IN  CASE (k - 1) % 3 = 0 -> BoolByte(ship.horizontal)
                          [] (k - 1) % 3 = 1 -> byte(ship.pos)
                          [] (k - 1) % 3 = 2 -> ship.len])
      [] message.type = "Target" -> RawMessage(TARGET, <<byte(message.pos)>>)

\* From<ServerMessage> for RawMessage
ServerToRaw(message) ==
    CASE message.type = "Handshake" -> HANDSHAKE
      [] message.type = "Invalid" -> INVALID
      [] message.type = "RequestTarget" -> REQUESTTARGET
      [] message.type = "RequestShipPositions" -> REQUESTSHIPPOSITIONS
      [] message.type = "InformTargetHitYou" ->
            RawMessage(INFORMTARGETHIT, <<0, byte(message.pos), BoolByte(message.sunken)>>)
      [] message.type = "InformTargetHitOpp" ->
            RawMessage(INFORMTARGETHIT, <<1, byte(message.pos), BoolByte(message.sunken)>>)
      [] message.type = "InformTargetMissYou" ->
            RawMessage(INFORMTARGETMISS, <<0, byte(message.pos)>>)
      [] message.type = "InformTargetMissOpp" ->
            RawMessage(INFORMTARGETMISS, <<1, byte(message.pos)>>)
      [] message.type = "InformVictory" -> INFORMVICTORY
      [] message.type = "InformLoss" -> INFORMLOSS
      [] message.type = "InformTargetSelection" -> INFORMTARGETSELECTION
      [] message.type = "TerminateConnection" -> TERMINATECONNECTION

\* TryFrom<RawMessage> for ServerMessage
ServerTryFrom(message) ==
    LET t == message.typemarker
        b == message.body
        posok(k) == IsSome(frombyte(b[k]))
    IN  IF message = HANDSHAKE THEN Ok(Plain("Handshake"))
        ELSE IF message = INVALID THEN Ok(Plain("Invalid"))
        ELSE IF message = REQUESTSHIPPOSITIONS THEN Ok(Plain("RequestShipPositions"))
        ELSE IF message = REQUESTTARGET THEN Ok(Plain("RequestTarget"))
        ELSE IF t = INFORMTARGETHIT /\ Len(b) = 3 /\ b[1] = 0
        THEN IF posok(2) THEN Ok(InformTargetHitYou(Unwrap(frombyte(b[2])), b[3] # 0))
             ELSE Err(MessageError(message))
        ELSE IF t = INFORMTARGETHIT /\ Len(b) = 3 /\ b[1] = 1
        THEN IF posok(2) THEN Ok(InformTargetHitOpp(Unwrap(frombyte(b[2])), b[3] # 0))
             ELSE Err(MessageError(message))
        ELSE IF t = INFORMTARGETMISS /\ Len(b) = 2 /\ b[1] = 0
        THEN IF posok(2) THEN Ok(InformTargetMissYou(Unwrap(frombyte(b[2]))))
             ELSE Err(MessageError(message))
        ELSE IF t = INFORMTARGETMISS /\ Len(b) = 2 /\ b[1] = 1
        THEN IF posok(2) THEN Ok(InformTargetMissOpp(Unwrap(frombyte(b[2]))))
             ELSE Err(MessageError(message))
        ELSE IF message = INFORMTARGETSELECTION THEN Ok(Plain("InformTargetSelection"))
        ELSE IF message = INFORMVICTORY THEN Ok(Plain("InformVictory"))
        ELSE IF message = INFORMLOSS THEN Ok(Plain("InformLoss"))
        ELSE IF message = TERMINATECONNECTION THEN Ok(Plain("TerminateConnection"))
        ELSE Err(MessageError(message))

(***************************************************************************)
(* server.rs: commands, results, errors                                    *)
(***************************************************************************)
\* CommandResult
Success == [type |-> "Success"]
Invalid == [type |-> "Invalid"]
GetShips(ships) == [type |-> "GetShips", ships |-> ships]
GetTarget(pos) == [type |-> "GetTarget", pos |-> pos]

\* server::Error
Protocol(e) == [kind |-> "Protocol", inner |-> e]
Middleware(requested, got) ==
    [kind |-> "Middleware", requested |-> requested, got |-> got]
Logic(e) == [kind |-> "Logic", inner |-> e]

\* the variants of CommandResult, and "Err" for an Err(_)
ResultKinds == {"Success", "Invalid", "GetShips", "GetTarget", "Err"}

CommandKinds ==
    {"Handshake", "RequestShips", "RequestTarget", "InformTargetSelection",
     "InformTargetHitYou", "InformTargetMissYou", "InformTargetHitOpp",
     "InformTargetMissOpp", "InformVictory", "InformLoss", "TerminateConnection"}

\* the variants of ServerMessage
ServerKinds ==
    {"Handshake", "Invalid", "RequestShipPositions", "RequestTarget",
     "InformTargetSelection", "InformTargetHitYou", "InformTargetMissYou",
     "InformTargetHitOpp", "InformTargetMissOpp", "InformVictory", "InformLoss",
     "TerminateConnection"}

(***************************************************************************)
(* The state.  The two players are 1 and 2: the positions of the code's    *)
(* two-element arrays (index 0 and index 1).                               *)
(***************************************************************************)
Players == {1, 2}

VARIABLES
    \* Instance (the match coordinator task)
    pc,        \* where Instance::run / play / playturn is suspended
    turn,      \* Instance.turn
    boards,    \* Instance.boards, <<>> until the Instance is built
    legs,      \* per player: the result of its branch of the pending join!
    legcmd,    \* per player: the command its branch issued
    info,      \* playturn's locals: [target, info] of the shot being resolved
    result,    \* None, or Some(the Result Instance::run returned)
    \* the channels (listen): server -> middleware and middleware -> server
    cmdq, resq,
    \* Middleware tasks
    mwpc,      \* "recv", "read" (in readmessage of handlecmd) or "exited"
    mwcmd,     \* the command being handled
    \* the TCP streams: frames written and not yet read, and the peers
    s2c, c2s,
    open,      \* the peer has not closed its socket
    closedin,  \* history: where the Instance was when the peer closed it
    hello,     \* the peer has sent its opening frame
    \* history: how many commands of each kind were issued to each Middleware,
    \* the player the last RequestTarget was issued to (0: none yet), how many
    \* results of each kind handlecmd returned for the commands of each kind,
    \* and how many frames of each kind were written to each peer
    issued, asked, returned, sent,
    \* listen: "join" while it awaits the three tasks of the match in join!,
    \* "accept" once it is back at listener.accept()
    listener,
    \* the argument and the result of a function of logic.rs or prot.rs that
    \* is applied on its own (CodecSpec, DecodeSpec, LogicSpec, BoardSpec);
    \* None in a match
    input, output,
    \* a logic::Board on its own (BoardSpec), and the history of the outcome
    \* Board::target first returned for each cell; None elsewhere
    soloboard, reported,
    \* a client::Client in Client::play on its own (ClientSpec), and the
    \* history of the messages it read from and wrote to its stream; None
    \* elsewhere
    client, wire

vars == <<pc, turn, boards, legs, legcmd, info, result, cmdq, resq,
          mwpc, mwcmd, s2c, c2s, open, closedin, hello,
          issued, asked, returned, sent, listener, input, output,
          soloboard, reported, client, wire>>

instvars == <<pc, turn, boards, legs, legcmd, info, result>>
mwvars == <<mwpc, mwcmd>>
peervars == <<open, closedin, hello>>
boardvars == <<soloboard, reported>>
clientvars == <<client, wire>>
purevars == <<input, output, boardvars, clientvars>>

NoCmd == Plain("None")

\* the state in which listen has spawned the tasks of a match
MatchInit ==
    /\ pc = "start"
    /\ turn = 0
    /\ boards = <<>>
    /\ legs = [i \in Players |-> None]
    /\ legcmd = [i \in Players |-> NoCmd]
    /\ info = None
    /\ result = None
    /\ cmdq = [i \in Players |-> <<>>]
    /\ resq = [i \in Players |-> <<>>]
    /\ mwpc = [i \in Players |-> "recv"]
    /\ mwcmd = [i \in Players |-> NoCmd]
    /\ s2c = [i \in Players |-> <<>>]
    /\ c2s = [i \in Players |-> <<>>]
    /\ open = [i \in Players |-> TRUE]
    /\ closedin = [i \in Players |-> "open"]
    /\ hello = [i \in Players |-> FALSE]
    /\ issued = [i \in Players |-> [k \in CommandKinds |-> 0]]
    /\ asked = 0
    /\ returned = [i \in Players |-> [k \in CommandKinds |-> [t \in ResultKinds |-> 0]]]
    /\ sent = [i \in Players |-> [k \in ServerKinds |-> 0]]
    /\ listener = "join"

\* no Board and no Client is run on its own
PartsIdle ==
    /\ soloboard = None
    /\ reported = None
    /\ client = None
    /\ wire = None

Init ==
    /\ MatchInit
    /\ input = None
    /\ output = None
    /\ PartsIdle

(***************************************************************************)
(* server.rs: Middleware                                                   *)
(***************************************************************************)
\* the ServerMessage handlecmd sends for a command
ServerMessageOf(cmd) ==
    IF cmd.type = "RequestShips" THEN Plain("RequestShipPositions") ELSE cmd

\* the match of handlecmd on the ClientMessage it read
handlecmd(cmd, msg) ==
    CASE cmd.type = "Handshake" ->
            IF msg.type = "Handshake" THEN Success ELSE Invalid
      [] cmd.type = "RequestShips" ->
            IF msg.type = "ShipPositions" THEN GetShips(msg.ships) ELSE Invalid
      [] cmd.type = "RequestTarget" ->
            IF msg.type = "Target" THEN GetTarget(msg.pos) ELSE Invalid
      [] OTHER ->
            IF msg.type = "Acknowledge" THEN Success ELSE Invalid

\* prot::sendmessage can fail only on a connection the peer has closed; a
\* write to such a connection may also still succeed
WriteOutcomes(i) == IF open[i] THEN {TRUE} ELSE {TRUE, FALSE}

\* a frame written to peer i: the stream and the count of frames written
Written(i, message) ==
    /\ s2c' = [s2c EXCEPT ![i] = IF open[i] THEN Append(@, ServerToRaw(message)) ELSE @]
    /\ sent' = [sent EXCEPT ![i][message.type] = @ + 1]

\* clienttx.send(cmdres) done twice
Deliver_twice(i, cmd, cmdres) ==
    /\ resq' = [resq EXCEPT ![i] = IF pc = "done" THEN @ ELSE Append(Append(@, cmdres), cmdres)]
    /\ returned' = [returned EXCEPT
            ![i][cmd.type][IF cmdres.ok THEN cmdres.val.type ELSE "Err"] = @ + 2]

\* clienttx.send(cmdres): the send fails, and is ignored, once the Instance
\* has dropped the receiver
Deliver(i, cmd, cmdres) ==
    /\ resq' = [resq EXCEPT ![i] = IF pc = "done" THEN @ ELSE Append(@, cmdres)]
    /\ returned' = [returned EXCEPT
            ![i][cmd.type][IF cmdres.ok THEN cmdres.val.type ELSE "Err"] = @ + 1]

\* Middleware::run takes a command; handlecmd up to its readmessage
MiddlewareRecv(i) ==
    /\ mwpc[i] = "recv"
    /\ cmdq[i] # <<>>
    /\ cmdq' = [cmdq EXCEPT ![i] = Tail(@)]
    /\ LET cmd == Head(cmdq[i])
       IN  IF cmd.type = "Handshake"
           THEN /\ mwpc' = [mwpc EXCEPT ![i] = "read"]
                /\ mwcmd' = [mwcmd EXCEPT ![i] = cmd]
                /\ UNCHANGED <<s2c, sent, resq, returned>>
           ELSE \E written \in WriteOutcomes(i) :
                  IF written
                  THEN /\ Written(i, ServerMessageOf(cmd))
                       /\ mwpc' = [mwpc EXCEPT ![i] = "read"]
                       /\ mwcmd' = [mwcmd EXCEPT ![i] = cmd]
                       /\ UNCHANGED <<resq, returned>>
                  ELSE /\ Deliver(i, cmd, Err(Protocol(NetworkingError)))
                       /\ UNCHANGED <<s2c, sent, mwpc, mwcmd>>
    /\ UNCHANGED <<instvars, c2s, peervars, issued, asked, listener, purevars>>

\* prot::readmessage: read_exact fails once the peer has closed the
\* connection and no frame is left to read
ReadFails(i) == c2s[i] = <<>> /\ ~open[i]

\* readmessage returns in handlecmd; the result goes to the Instance and the
\* loop of Middleware::run goes on
MiddlewareRead(i) ==
    /\ mwpc[i] = "read"
    /\ mwpc' = [mwpc EXCEPT ![i] = "recv"]
    /\ mwcmd' = [mwcmd EXCEPT ![i] = NoCmd]
    /\ \/ /\ c2s[i] # <<>>
          /\ c2s' = [c2s EXCEPT ![i] = Tail(@)]
          /\ LET read == ClientTryFrom(Head(c2s[i]))
             IN  IF ~read.ok
                 THEN /\ Deliver(i, mwcmd[i], Err(Protocol(read.err)))
                      /\ UNCHANGED <<s2c, sent>>
                 ELSE IF mwcmd[i].type = "Handshake" /\ read.val.type = "Handshake"
                 THEN \E written \in WriteOutcomes(i) :
                        IF written
                        THEN /\ Written(i, Plain("Handshake"))
                             /\ Deliver(i, mwcmd[i], Ok(handlecmd(mwcmd[i], read.val)))
                        ELSE /\ Deliver(i, mwcmd[i], Err(Protocol(NetworkingError)))
                             /\ UNCHANGED <<s2c, sent>>
                 ELSE /\ Deliver(i, mwcmd[i], Ok(handlecmd(mwcmd[i], read.val)))
                      /\ UNCHANGED <<s2c, sent>>
       \/ /\ ReadFails(i)
          /\ Deliver(i, mwcmd[i], Err(Protocol(NetworkingError)))
          /\ UNCHANGED <<c2s, s2c, sent>>
    /\ UNCHANGED <<instvars, cmdq, peervars, issued, asked, listener, purevars>>

\* serverrx.recv() returns None once the Instance has dropped the sender
MiddlewareExit(i) ==
    /\ mwpc[i] = "recv"
    /\ cmdq[i] = <<>>
    /\ pc = "done"
    /\ mwpc' = [mwpc EXCEPT ![i] = "exited"]
    /\ UNCHANGED <<instvars, cmdq, resq, mwcmd, s2c, c2s, peervars,
                   issued, asked, returned, sent, listener, purevars>>

(***************************************************************************)
(* server.rs: Instance                                                     *)
(***************************************************************************)
Unit == "()"

\* getplayeropppair without the test of the parity of the turn
getplayeropppair_noparity(t, arr) == <<arr[1], arr[2]>>

\* Instance::getplayeropppair on the two-element array arr
getplayeropppair(t, arr) ==
    IF t % 2 = 0 THEN <<arr[1], arr[2]>> ELSE <<arr[2], arr[1]>>

\* informmw that takes every result for a success
informmw_anyresult(cmd, res) == Ok(Unit)

\* Instance::informmw after its recv: res is what the Middleware sent back
informmw(cmd, res) ==
    IF ~res.ok THEN res
    ELSE IF res.val.type = "Success" THEN Ok(Unit)
    ELSE Err(Middleware(cmd, res.val))

\* Instance::getships after its recv
getships(res) ==
    IF ~res.ok THEN res
    ELSE IF res.val.type = "GetShips" THEN Ok(res.val.ships)
    ELSE Err(Middleware(Plain("RequestShips"), res.val))

\* gettarget with Position::default() for a result of another shape
gettarget_default(res) ==
    IF ~res.ok THEN res
    ELSE IF res.val.type = "GetTarget" THEN Ok(res.val.pos)
    ELSE Ok(PositionDefault)

\* the first branch of the join! of Instance::gettarget after its recv
gettarget(res) ==
    IF ~res.ok THEN res
    ELSE IF res.val.type = "GetTarget" THEN Ok(res.val.pos)
    ELSE Err(Middleware(Plain("RequestShips"), res.val))

\* what the branch of player i makes of the result it received
LegResult(i, res) ==
    CASE legcmd[i].type = "RequestShips" -> getships(res)
      [] legcmd[i].type = "RequestTarget" -> gettarget(res)
      [] OTHER -> informmw(legcmd[i], res)

\* the commands of a join!: cplayer for player, copp for the other one
Pair(player, cplayer, copp) ==
    [i \in Players |-> IF i = player THEN cplayer ELSE copp]

\* tx.send(cmd) on both channels: the first poll of a join! (or the loop of
\* sends in Instance::run) runs up to the first recv of each branch
Issue(cmds) ==
    /\ cmdq' = [i \in Players |-> Append(cmdq[i], cmds[i])]
    /\ issued' = [i \in Players |-> [issued[i] EXCEPT ![cmds[i].type] = @ + 1]]
    /\ asked' = IF \E i \in Players : cmds[i].type = "RequestTarget"
                THEN CHOOSE i \in Players : cmds[i].type = "RequestTarget"
                ELSE asked
    /\ legcmd' = cmds
    /\ legs' = [i \in Players |-> None]

\* the Instance goes on to its next pair of commands
Goto(pc2, turn2, boards2, info2, cmds) ==
    /\ pc' = pc2
    /\ turn' = turn2
    /\ boards' = boards2
    /\ info' = info2
    /\ Issue(cmds)
    /\ UNCHANGED result

\* Instance::run returns res
Finish(res, boards2) ==
    /\ pc' = "done"
    /\ result' = Some(res)
    /\ boards' = boards2
    /\ legs' = [i \in Players |-> None]
    /\ legcmd' = [i \in Players |-> NoCmd]
    /\ UNCHANGED <<turn, info, cmdq, issued, asked>>

\* the head of Instance::playturn: Instance::gettarget issues its commands
StartTurn(turn2, boards2) ==
    LET player == getplayeropppair(turn2, <<1, 2>>)[1]
    IN  Goto("gettarget", turn2, boards2, None,
             Pair(player, Plain("RequestTarget"), Plain("InformTargetSelection")))

\* the notice of a resolved shot for the active player
NoticeOpp(pos, ai) ==
    IF ai.kind = "Miss" THEN InformTargetMissOpp(pos)
    ELSE InformTargetHitOpp(pos, ai.sunken)

\* the notice for the passive player with the sunken flag left out
NoticeYou_notsunken(pos, ai) ==
    IF ai.kind = "Miss" THEN InformTargetMissYou(pos)
    ELSE InformTargetHitYou(pos, FALSE)

\* the notice of a resolved shot for the passive player
NoticeYou(pos, ai) ==
    IF ai.kind = "Miss" THEN InformTargetMissYou(pos)
    ELSE InformTargetHitYou(pos, ai.sunken)

\* Instance::run: the Handshake command to both Middlewares
InstanceRun ==
    /\ pc = "start"
    /\ Goto("handshake1", turn, boards, info,
            [i \in Players |-> Plain("Handshake")])
    /\ UNCHANGED <<resq, mwvars, s2c, c2s, peervars, returned, sent, listener, purevars>>

\* the loop over the receivers without the test for CommandResult::Invalid
handshake_noinvalid(res) == IF ~res.ok THEN res ELSE Ok(Unit)

\* Instance::run: what the loop over the receivers makes of a result
handshake(res) ==
    IF ~res.ok THEN res
    ELSE IF res.val.type = "Invalid" THEN Err(Protocol(UnsuccessfulHandshake))
    ELSE Ok(Unit)

\* Instance::run: the loop over the receivers, at receiver i
HandshakeRecv(i) ==
    /\ pc = (IF i = 1 THEN "handshake1" ELSE "handshake2")
    /\ resq[i] # <<>>
    /\ resq' = [resq EXCEPT ![i] = Tail(@)]
    /\ LET res == handshake(Head(resq[i]))
       IN  IF ~res.ok THEN Finish(res, boards)
           ELSE IF i = 1
           THEN /\ pc' = "handshake2"
                /\ UNCHANGED <<turn, boards, legs, legcmd, info, result, cmdq, issued, asked>>
           ELSE Goto("getships", turn, boards, info,
                     [j \in Players |-> Plain("RequestShips")])
    /\ UNCHANGED <<mwvars, s2c, c2s, peervars, returned, sent, listener, purevars>>

\* both branches of the join! the Instance is suspended in have returned,
\* with r: the code that follows the join!, up to the next one
Joined(r) ==
    LET po == getplayeropppair(turn, <<1, 2>>)
        player == po[1]
        opp == po[2]
    IN  CASE pc = "getships" ->
              \* Instance::run: Board::new(ship1?), Board::new(ship2?), play
              IF ~r[1].ok THEN Finish(Err(r[1].err), boards)
              ELSE IF ~r[2].ok THEN Finish(Err(r[2].err), boards)
              ELSE StartTurn(0, <<BoardNew(r[1].val), BoardNew(r[2].val)>>)
          [] pc = "gettarget" ->
              \* gettarget: acknowledged?; target.  playturn: boardopp.target
              IF ~r[opp].ok THEN Finish(Err(r[opp].err), boards)
              ELSE IF ~r[player].ok THEN Finish(Err(r[player].err), boards)
              ELSE LET shot == target(boards[opp], r[player].val)
                       boards2 == [boards EXCEPT ![opp] = shot[2]]
                   IN  IF shot[1] = None
                       THEN Finish(Err(Logic("OccupiedTargetPosition")), boards2)
                       ELSE Goto("inform", turn, boards2,
                                 Some([target |-> r[player].val, info |-> Unwrap(shot[1])]),
                                 Pair(player,
                                      NoticeOpp(r[player].val, Unwrap(shot[1])),
                                      NoticeYou(r[player].val, Unwrap(shot[1]))))
          [] pc = "inform" ->
              \* playturn: success1?; success2?; then by the AttackInfo
              IF ~r[player].ok THEN Finish(Err(r[player].err), boards)
              ELSE IF ~r[opp].ok THEN Finish(Err(r[opp].err), boards)
              ELSE IF Unwrap(info).info.kind = "Miss"
              THEN StartTurn((turn + 1) % U8, boards)
              ELSE IF allsunken(boards[opp])
              THEN Goto("victory", turn, boards, info,
                        Pair(player, Plain("InformVictory"), Plain("InformLoss")))
              ELSE StartTurn(turn, boards)
          [] pc = "victory" ->
              IF ~r[player].ok THEN Finish(Err(r[player].err), boards)
              ELSE IF ~r[opp].ok THEN Finish(Err(r[opp].err), boards)
              ELSE Goto("terminate", turn, boards, info,
                        [j \in Players |-> Plain("TerminateConnection")])
          [] pc = "terminate" ->
              \* playturn returns Ok(false); Instance::play goes on after its loop
              IF ~r[player].ok THEN Finish(Err(r[player].err), boards)
              ELSE IF ~r[opp].ok THEN Finish(Err(r[opp].err), boards)
              ELSE Goto("cleanup", turn, boards, info,
                        [j \in Players |-> Plain("TerminateConnection")])
          [] pc = "cleanup" ->
              \* let _ = join!(..): the results are dropped
              Finish(Ok(Unit), boards)

JoinPcs == {"getships", "gettarget", "inform", "victory", "terminate", "cleanup"}

\* the branch of player i of the pending join! receives its result
JoinRecv(i) ==
    /\ pc \in JoinPcs
    /\ legs[i] = None
    /\ resq[i] # <<>>
    /\ resq' = [resq EXCEPT ![i] = Tail(@)]
    /\ LET l == [legs EXCEPT ![i] = Some(LegResult(i, Head(resq[i])))]
       IN  IF \E j \in Players : l[j] = None
           THEN /\ legs' = l
                /\ UNCHANGED <<pc, turn, boards, legcmd, info, result, cmdq, issued, asked>>
           ELSE Joined([j \in Players |-> Unwrap(l[j])])
    /\ UNCHANGED <<mwvars, s2c, c2s, peervars, returned, sent, listener, purevars>>

(***************************************************************************)
(* The peers: the environment.  A peer writes one frame to open the        *)
(* connection and one frame for each frame of the server it reads (the     *)
(* Handshake reply excepted, which Client::connect only reads); it may     *)
(* close its socket instead, or right after a frame, and it may stay       *)
(* silent for ever.  The frames are drawn from the bounded sets below.     *)
(***************************************************************************)
Pos(x, y) == Unwrap(fromcoords(x, y))

\* the reference fleet, and a fleet of plans whose first two ships overlap
ReferenceFleet ==
    <<Horizontal(Pos(0, 0), 2), Horizontal(Pos(0, 1), 3), Horizontal(Pos(0, 2), 3),
      Horizontal(Pos(0, 3), 4), Horizontal(Pos(0, 4), 5)>>
OverlapFleet ==
    <<Horizontal(Pos(0, 0), 2), Vertical(Pos(0, 0), 3), Horizontal(Pos(0, 2), 3),
      Horizontal(Pos(0, 3), 4), Horizontal(Pos(0, 4), 5)>>

\* a byte that is no position (x = 10, y = 10)
BadPositionByte == 170

SetMin(S) == CHOOSE m \in S : \A n \in S : m <= n
SetMax(S) == CHOOSE m \in S : \A n \in S : n <= m

\* the target bytes peer i may answer with: the first ship cell of the other
\* board not fired at, a water cell not fired at (see MaxMiss, MissWindow),
\* a cell fired at before, and a byte that is no position
TargetBytes(i) ==
    LET board == boards[3 - i]
        ship == {p \in Positions : board.shipmap[p] # U8MAX}
        water == Positions \ ship
        fired == boards[1].hitmap \cup boards[2].hitmap
        misses == Cardinality(boards[1].hitmap \ {p \in Positions : boards[1].shipmap[p] # U8MAX})
                  + Cardinality(boards[2].hitmap \ {p \in Positions : boards[2].shipmap[p] # U8MAX})
    IN  (IF ship \ board.hitmap = {} THEN {} ELSE {SetMin(ship \ board.hitmap)})
        \cup (IF misses < MaxMiss /\ Cardinality(ship \cap board.hitmap) < MissWindow
              THEN {SetMax(water \ board.hitmap)} ELSE {})
        \cup (IF board.hitmap = {} THEN {} ELSE {SetMax(board.hitmap)})
        \cup {BadPositionByte}

\* the frames peer i may answer the server's frame request with
Replies(i, request) ==
    LET read == ServerTryFrom(request)
    IN  CASE read.val.type = "RequestShipPositions" ->
               {ClientToRaw(ClientShipPositions(ReferenceFleet)),
                ClientToRaw(ClientShipPositions(OverlapFleet)),
                ACKNOWLEDGMENT}
          [] read.val.type = "RequestTarget" ->
               {RawMessage(TARGET, <<b>>) : b \in TargetBytes(i)}
               \cup {ACKNOWLEDGMENT, RawMessage(TARGET, <<>>)}
          [] OTHER ->
               {ACKNOWLEDGMENT, RawMessage(TARGET, <<0>>), RawMessage(TARGET, <<>>)}

\* peer i keeps its socket open, or closes it
Stay(i, stay) ==
    /\ open' = [open EXCEPT ![i] = stay]
    /\ closedin' = [closedin EXCEPT ![i] = IF stay THEN @ ELSE pc]

\* the opening frame of peer i
PeerHello(i) ==
    /\ open[i]
    /\ ~hello[i]
    /\ hello' = [hello EXCEPT ![i] = TRUE]
    /\ \E frame \in {HANDSHAKE, ACKNOWLEDGMENT, RawMessage(TARGET, <<>>)},
          stay \in BOOLEAN :
          /\ c2s' = [c2s EXCEPT ![i] = Append(@, frame)]
          /\ Stay(i, stay)
    /\ UNCHANGED <<instvars, cmdq, resq, mwvars, s2c, issued, asked, returned, sent,
                   listener, purevars>>

\* peer i reads a frame of the server and answers it
PeerReply(i) ==
    /\ open[i]
    /\ s2c[i] # <<>>
    /\ s2c' = [s2c EXCEPT ![i] = Tail(@)]
    /\ IF Head(s2c[i]) = HANDSHAKE
       THEN UNCHANGED <<c2s, open, closedin>>
       ELSE \E frame \in Replies(i, Head(s2c[i])), stay \in BOOLEAN :
               /\ c2s' = [c2s EXCEPT ![i] = Append(@, frame)]
               /\ Stay(i, stay)
    /\ UNCHANGED <<instvars, cmdq, resq, mwvars, hello, issued, asked, returned, sent,
                   listener, purevars>>

\* peer i closes its socket instead of writing the frame it owes
PeerClose(i) ==
    /\ open[i]
    /\ ~hello[i] \/ s2c[i] # <<>>
    /\ Stay(i, FALSE)
    /\ UNCHANGED <<instvars, cmdq, resq, mwvars, s2c, c2s, hello,
                   issued, asked, returned, sent, listener, purevars>>

(***************************************************************************)
(* server.rs: listen.  The model starts when listen has spawned the three  *)
(* tasks of a match and awaits them.                                       *)
(***************************************************************************)
\* join!(client1, client2, instance) returns once the three tasks have
\* returned; listen logs the result and its loop is back at accept()
ListenJoined ==
    /\ listener = "join"
    /\ pc = "done"
    /\ \A i \in Players : mwpc[i] = "exited"
    /\ listener' = "accept"
    /\ UNCHANGED <<instvars, cmdq, resq, mwvars, s2c, c2s, peervars,
                   issued, asked, returned, sent, purevars>>

(***************************************************************************)
(* The match: one Instance, its two Middlewares and the two peers, and the *)
(* listener that spawned them.                                             *)
(***************************************************************************)
Next ==
    \/ InstanceRun
    \/ ListenJoined
    \/ \E i \in Players : HandshakeRecv(i)
    \/ \E i \in Players : JoinRecv(i)
    \/ \E i \in Players : MiddlewareRecv(i)
    \/ \E i \in Players : MiddlewareRead(i)
    \/ \E i \in Players : MiddlewareExit(i)
    \/ \E i \in Players : PeerHello(i)
    \/ \E i \in Players : PeerReply(i)
    \/ \E i \in Players : PeerClose(i)

Spec == Init /\ [][Next]_vars

\* readmessage in handlecmd returns once a frame has arrived or the peer has
\* closed the connection: the states in which MiddlewareRead(i) is enabled
MiddlewareReadEnabled(i) ==
    mwpc[i] = "read" /\ (c2s[i] # <<>> \/ ReadFails(i))

\* The tasks are polled by the tokio runtime whenever they can go on: a task
\* that stays able to take a step takes it.  Nothing makes a peer write.
\* The conjunct for MiddlewareRead(i) is WF_vars(MiddlewareRead(i)) with
\* ENABLED <<MiddlewareRead(i)>>_vars written out as MiddlewareReadEnabled(i).
Fairness ==
    /\ WF_vars(InstanceRun)
    /\ WF_vars(ListenJoined)
    /\ \A i \in Players :
          /\ WF_vars(HandshakeRecv(i))
          /\ WF_vars(JoinRecv(i))
          /\ WF_vars(MiddlewareRecv(i))
          /\ []<>(~MiddlewareReadEnabled(i)) \/ []<><<MiddlewareRead(i)>>_vars
          /\ WF_vars(MiddlewareExit(i))

FairSpec == Spec /\ Fairness

(***************************************************************************)
(* Vocabulary of the properties                                            *)
(***************************************************************************)
Done == pc = "done"
Succeeded == Done /\ Unwrap(result).ok
Failed == Done /\ ~Unwrap(result).ok

\* the players the last target request went to, and the other one
Active == asked
Passive == 3 - asked

\* a step of the Instance that ends a turn's notice phase and issues the
\* next target request
NextTurnStarts == pc = "inform" /\ pc' = "gettarget"

IssuedNow(i, kind) == issued'[i][kind] > issued[i][kind]

ShipCellsOf(board) == {p \in Positions : board.shipmap[p] # U8MAX}
AllShipCellsTargeted(board) == ShipCellsOf(board) \subseteq board.hitmap

Notices(i) ==
    issued[i]["InformTargetHitYou"] + issued[i]["InformTargetMissYou"]
    + issued[i]["InformTargetHitOpp"] + issued[i]["InformTargetMissOpp"]

(***************************************************************************)
(* C1: after every turn resolved without ending the match, hit or miss,    *)
(* the turn counter is incremented by exactly 1 before the next target     *)
(* request is issued.                                                      *)
(***************************************************************************)
C1_TurnIncrementedEveryTurn ==
    [][NextTurnStarts => turn' = turn + 1]_vars

(***************************************************************************)
(* C2: the player asked for a target in a resolved, non-final turn is not  *)
(* the player asked for a target in the next turn, hit or miss.            *)
(***************************************************************************)
C2_PlayersAlternate ==
    [][NextTurnStarts => asked' # asked]_vars

(***************************************************************************)
(* C3: the turn counter never decreases; each target request goes to the   *)
(* player with index turn mod 2 (player 1 when turn is even) and the       *)
(* returned target is applied to the other player's board, never to the    *)
(* board of the player who was asked.                                      *)
(***************************************************************************)
C3_TurnParitySelectsShooter ==
    [][/\ turn' >= turn
       /\ \A i \in Players :
             IssuedNow(i, "RequestTarget") => i = (turn' % 2) + 1
       /\ \A j \in Players :
             (boards # <<>> /\ boards'[j].hitmap # boards[j].hitmap)
                => (j # asked /\ j = 2 - (turn % 2))]_vars

\* player 2 has been asked at an odd turn and its shot has hit board 1
C3_Witness ==
    /\ turn = 1
    /\ asked = 2
    /\ pc = "inform"
    /\ boards[1].hitmap # {}

(***************************************************************************)
(* C4: InformVictory and InformLoss are issued if and only if a hit has    *)
(* just left every ship cell of the passive player's board targeted and    *)
(* both players acknowledged the hit notice; Victory goes to the active    *)
(* player of that turn and Loss to the passive one; TerminateConnection    *)
(* is issued to both only after both have acknowledged Victory/Loss.       *)
(***************************************************************************)
VictoryLossIssued ==
    \E i \in Players : issued[i]["InformVictory"] + issued[i]["InformLoss"] > 0

\* every hit notice issued to the two players has been acknowledged
HitNoticesAcknowledged ==
    /\ returned[Active]["InformTargetHitOpp"]["Success"]
          = issued[Active]["InformTargetHitOpp"]
    /\ returned[Passive]["InformTargetHitYou"]["Success"]
          = issued[Passive]["InformTargetHitYou"]

LastShipSunkAndAcknowledged ==
    /\ asked # 0
    /\ AllShipCellsTargeted(boards[Passive])
    /\ Unwrap(info).info.kind = "Hit"
    /\ HitNoticesAcknowledged
    /\ pc # "inform"

C4_VictoryLossIffLastShipSunk ==
    /\ VictoryLossIssued <=> LastShipSunkAndAcknowledged
    /\ VictoryLossIssued =>
          /\ issued[Active]["InformVictory"] = 1
          /\ issued[Active]["InformLoss"] = 0
          /\ issued[Passive]["InformLoss"] = 1
          /\ issued[Passive]["InformVictory"] = 0
    /\ (\E i \in Players : issued[i]["TerminateConnection"] > 0) =>
          /\ returned[Active]["InformVictory"]["Success"] = 1
          /\ returned[Passive]["InformLoss"]["Success"] = 1
          /\ issued[1]["TerminateConnection"] = issued[2]["TerminateConnection"]

\* player 2 has sunk the last ship of player 1, Victory and Loss have been
\* acknowledged and TerminateConnection has been issued
C4_Witness ==
    /\ pc = "terminate"
    /\ asked = 2
    /\ issued[2]["InformVictory"] = 1
    /\ issued[1]["InformLoss"] = 1

(***************************************************************************)
(* C5: in a match played to completion the server sends the winning side   *)
(* exactly one Victory notice and exactly one TerminateConnection frame,   *)
(* the losing side exactly one Loss notice and exactly one                 *)
(* TerminateConnection frame, and no player both Victory and Loss.         *)
(***************************************************************************)
C5_OneVictoryLossTerminate ==
    Succeeded =>
       /\ sent[Active]["InformVictory"] = 1
       /\ sent[Active]["TerminateConnection"] = 1
       /\ sent[Passive]["InformLoss"] = 1
       /\ sent[Passive]["TerminateConnection"] = 1
       /\ \A i \in Players :
             ~(sent[i]["InformVictory"] > 0 /\ sent[i]["InformLoss"] > 0)

(***************************************************************************)
(* C6: if a step of the handshake, the fleet collection or the turn loop   *)
(* fails, the match ends in error and the coordinator has issued a         *)
(* TerminateConnection command to both Middlewares before it finishes.     *)
(***************************************************************************)
C6_TerminateIssuedOnFailure ==
    Failed => \A i \in Players : issued[i]["TerminateConnection"] > 0

(***************************************************************************)
(* C7: once both peers have acknowledged the TerminateConnection that      *)
(* follows Victory/Loss, the coordinator finishes with a success result,   *)
(* without any further reply of a peer.                                    *)
(***************************************************************************)
TerminateAcknowledged ==
    \A i \in Players : returned[i]["TerminateConnection"]["Success"] > 0

C7_SuccessOnceTerminateAcknowledged == TerminateAcknowledged ~> Succeeded

(***************************************************************************)
(* C8: if the Handshake command of a player returns a result that is not   *)
(* Success, the match aborts with a handshake failure and the coordinator  *)
(* issues no further command to either Middleware.                         *)
(***************************************************************************)
HandshakeNotSuccess(i) ==
    returned[i]["Handshake"]["Invalid"] + returned[i]["Handshake"]["Err"] > 0

C8_HandshakeFailureAborts ==
    /\ (\E i \in Players : HandshakeNotSuccess(i)) =>
          /\ \A j \in Players, k \in CommandKinds \ {"Handshake"} : issued[j][k] = 0
          /\ \A j \in Players : sent[j]["Handshake"] <= 1
                                /\ \A k \in ServerKinds \ {"Handshake"} : sent[j][k] = 0
          /\ pc \in {"handshake1", "handshake2", "done"}
          /\ Done => Failed /\ Unwrap(result).err.kind = "Protocol"
    /\ (/\ Done
        /\ \E i \in Players : returned[i]["Handshake"]["Invalid"] > 0
        /\ \A i \in Players : returned[i]["Handshake"]["Err"] = 0)
          => Unwrap(result) = Err(Protocol(UnsuccessfulHandshake))

\* the Handshake of player 1 returned Success, that of player 2 Invalid,
\* and the match has aborted
C8_Witness ==
    /\ Done
    /\ returned[1]["Handshake"]["Success"] = 1
    /\ returned[2]["Handshake"]["Invalid"] = 1
    /\ Unwrap(result) = Err(Protocol(UnsuccessfulHandshake))

(***************************************************************************)
(* C9: if a peer disconnects during the handshake, the match eventually    *)
(* aborts with an error, whichever of the two players disconnected and     *)
(* whatever the other peer does.                                           *)
(***************************************************************************)
\* peer i closed its connection while the Instance was in the handshake
DisconnectedInHandshake(i) ==
    closedin[i] \in {"start", "handshake1", "handshake2"}

C9_DisconnectInHandshakeAborts ==
    \A i \in Players : DisconnectedInHandshake(i) ~> Failed

(***************************************************************************)
(* C10: if the active player returns a target whose cell on the passive    *)
(* board was already targeted, the match ends with the logic error         *)
(* OccupiedTargetPosition: no hit/miss notice is sent for that shot, the   *)
(* turn counter is not advanced and no Victory/Loss follows.               *)
(***************************************************************************)
\* the results of the two branches of the join! that this step completes
BranchResult(i) ==
    IF legs[i] # None THEN Unwrap(legs[i]) ELSE LegResult(i, Head(resq[i]))

\* the step in which the Instance has both results of Instance::gettarget,
\* both are Ok, and the target is a cell of the passive board fired at before
RepeatedShot ==
    /\ pc = "gettarget"
    /\ pc' # "gettarget"
    /\ BranchResult(Active).ok
    /\ BranchResult(Passive).ok
    /\ BranchResult(Active).val \in boards[Passive].hitmap

OccupiedTargetPosition == Err(Logic("OccupiedTargetPosition"))

C10_RepeatedTargetIsLogicError ==
    [][/\ RepeatedShot =>
             /\ pc' = "done"
             /\ result' = Some(OccupiedTargetPosition)
             /\ turn' = turn
             /\ issued' = issued
             /\ cmdq' = cmdq
             /\ boards' = boards
       /\ Done => (pc' = "done" /\ result' = result /\ turn' = turn
                   /\ issued' = issued /\ boards' = boards)
       /\ (Done /\ result = Some(OccupiedTargetPosition)) => sent' = sent]_vars

\* player 2, at turn 1, has fired again at a cell of board 1, and the match
\* has ended with the logic error
C10_Witness ==
    /\ Done
    /\ result = Some(OccupiedTargetPosition)
    /\ turn = 1
    /\ asked = 2
    /\ boards[1].hitmap # {}

(***************************************************************************)
(* C11: for every joined pair of commands of the turn loop the coordinator *)
(* issues no command of the following phase and changes no board until it  *)
(* has received both results of the pair; once a leg of a pair has failed,  *)
(* no board is targeted, nothing more is issued and the match can only end  *)
(* in error.                                                                *)
(***************************************************************************)
TurnLoopPcs == {"gettarget", "inform", "victory", "terminate"}

\* the result kind with which a command of the turn loop succeeds
ExpectedKind(kind) == IF kind = "RequestTarget" THEN "GetTarget" ELSE "Success"

\* handlecmd has returned a failing result for a command of the turn loop
\* (for TerminateConnection: the one of playturn, not the one of the cleanup)
TurnLegFailed ==
    \E i \in Players, k \in CommandKinds \ {"Handshake", "RequestShips"} :
        /\ \E t \in ResultKinds \ {ExpectedKind(k)} : returned[i][k][t] > 0
        /\ k = "TerminateConnection" => issued[i][k] = 1

\* this step takes the result of every branch that had not returned yet
BothResultsReceived ==
    \A j \in Players :
        legs[j] # None \/ (resq[j] # <<>> /\ resq'[j] = Tail(resq[j]))

C11_JoinedPairBeforeNextPhase ==
    [][/\ (pc \in TurnLoopPcs /\ (issued' # issued \/ boards' # boards \/ pc' # pc))
             => BothResultsReceived
       /\ TurnLegFailed =>
             /\ issued' = issued
             /\ boards' = boards
             /\ pc' \in {pc, "done"}
             /\ pc' = "done" => ~Unwrap(result').ok]_vars

\* player 1 has returned a target, player 2 has answered the selection
\* notice with something else than an acknowledgment, and the match has
\* ended in error with the board of player 2 untouched
C11_Witness ==
    /\ Failed
    /\ turn = 0
    /\ returned[1]["RequestTarget"]["GetTarget"] = 1
    /\ returned[2]["InformTargetSelection"]["Invalid"] = 1
    /\ boards[2].hitmap = {}

(***************************************************************************)
(* C12: when a target has been applied, the active player is issued the    *)
(* 'opponent' variant of the notice and the passive player the 'you'       *)
(* variant, both with the position of the shot and with the hit-or-miss    *)
(* outcome and the sunken flag that Board::target returned for it; the     *)
(* frames written for them carry the same values.                          *)
(***************************************************************************)
\* the step in which playturn applies the target and issues the notices
TargetApplied == pc = "gettarget" /\ pc' = "inform"

\* the notice due to player i for shot pos with AttackInfo ai
NoticeDue(i, pos, ai) ==
    IF i = Active
    THEN IF ai.kind = "Hit"
         THEN [type |-> "InformTargetHitOpp", pos |-> pos, sunken |-> ai.sunken]
         ELSE [type |-> "InformTargetMissOpp", pos |-> pos]
    ELSE IF ai.kind = "Hit"
         THEN [type |-> "InformTargetHitYou", pos |-> pos, sunken |-> ai.sunken]
         ELSE [type |-> "InformTargetMissYou", pos |-> pos]

\* the frame of that notice
NoticeFrameDue(i, pos, ai) ==
    IF ai.kind = "Hit"
    THEN RawMessage(151, <<IF i = Active THEN 1 ELSE 0, pos, IF ai.sunken THEN 1 ELSE 0>>)
    ELSE RawMessage(152, <<IF i = Active THEN 1 ELSE 0, pos>>)

C12_NoticesCarryTheOutcome ==
    [][/\ TargetApplied =>
             LET pos == BranchResult(Active).val
                 ai == Unwrap(target(boards[Passive], pos)[1])
             IN  /\ info' = Some([target |-> pos, info |-> ai])
                 /\ \A i \in Players :
                       cmdq'[i] = Append(cmdq[i], NoticeDue(i, pos, ai))
       /\ \A i \in Players :
             (pc = "inform" /\ Len(s2c'[i]) > Len(s2c[i])) =>
                s2c'[i][Len(s2c'[i])]
                   = NoticeFrameDue(i, Unwrap(info).target, Unwrap(info).info)]_vars

\* player 2 has sunk a ship of player 1, and both frames of the notice are
\* written and not yet read
C12_Witness ==
    /\ pc = "inform"
    /\ asked = 2
    /\ Unwrap(info).info = Hit(TRUE)
    /\ s2c[2] = <<RawMessage(151, <<1, Unwrap(info).target, 1>>)>>
    /\ s2c[1] = <<RawMessage(151, <<0, Unwrap(info).target, 1>>)>>

(***************************************************************************)
(* C13: after spawning the tasks of a match the listener goes on to accept *)
(* the next pair of connections without waiting for the match to finish:   *)
(* whatever the state of the match, its step back to accept() can be       *)
(* taken.                                                                  *)
(***************************************************************************)
C13_ListenerDoesNotWaitForMatch ==
    listener = "join" => ENABLED ListenJoined

(***************************************************************************)
(* C14: whenever a match has ended in error, the listener eventually is    *)
(* back at accepting a new pair of connections, even if a peer of the      *)
(* failed match stays connected and silent.                                *)
(***************************************************************************)
C14_ListenerAcceptsAfterFailure == Failed ~> (listener = "accept")

(***************************************************************************)
(* C15: a well-formed client message that is not of the kind expected for  *)
(* the command in progress (handlecmd returns Invalid for it) ends the     *)
(* match with a protocol error.                                            *)
(***************************************************************************)
\* handlecmd has returned Invalid for a command whose result the Instance
\* looks at (all but the TerminateConnection of the cleanup)
UnexpectedMessageReturned ==
    \E i \in Players, k \in CommandKinds :
        /\ returned[i][k]["Invalid"] > 0
        /\ k = "TerminateConnection" => issued[i][k] = 1

C15_UnexpectedMessageIsProtocolError ==
    (Done /\ UnexpectedMessageReturned) =>
        (Failed /\ Unwrap(result).err.kind = "Protocol")

(***************************************************************************)
(* prot.rs on its own: the conversions between messages and frames,        *)
(* applied to one message drawn from the bounded sets below.               *)
(***************************************************************************)
matchvars == <<instvars, cmdq, resq, mwvars, s2c, c2s, peervars,
               issued, asked, returned, sent, listener>>

\* the largest offset of a ship along its lane in the fleets below
MaxShift == 1

\* orders in which the five lengths are assigned to the ships of a fleet
LengthOrders == {<<2, 3, 3, 4, 5>>, <<5, 4, 3, 3, 2>>, <<3, 5, 2, 4, 3>>}

\* ship k of a fleet plan: in row 2(k-1) from column s on if horizontal, in
\* column 2(k-1) from row s on if vertical
LanePlan(k, horizontal, s, len) ==
    IF horizontal THEN Horizontal(Pos(s, 2 * (k - 1)), len)
    ELSE Vertical(Pos(2 * (k - 1), s), len)

\* the fleet plans with the lengths in the order given: every choice of the
\* orientations and of the offset; ships of different orientation may cross
FleetPlans(orders) ==
    {[k \in 1..5 |-> LanePlan(k, o[k], s, order[k])] :
        o \in [1..5 -> BOOLEAN], s \in 0..MaxShift, order \in orders}

\* values of type logic::Ships: the plans that Ship::try_from and
\* Ships::try_from accept
ShipsValues ==
    {f \in FleetPlans(LengthOrders) \cup {ReferenceFleet} :
        (\A k \in 1..5 : ShipTryFrom(f[k])) /\ ShipsTryFrom(f).ok}

\* values of type ClientMessage and ServerMessage
ClientMessages ==
    {ClientHandshake, ClientAcknowledge}
    \cup {ClientTarget(p) : p \in Positions}
    \cup {ClientShipPositions(f) : f \in ShipsValues}

ServerMessages ==
    {Plain(t) : t \in {"Handshake", "Invalid", "RequestShipPositions",
                       "RequestTarget", "InformTargetSelection", "InformVictory",
                       "InformLoss", "TerminateConnection"}}
    \cup {InformTargetHitYou(p, b) : p \in Positions, b \in BOOLEAN}
    \cup {InformTargetHitOpp(p, b) : p \in Positions, b \in BOOLEAN}
    \cup {InformTargetMissYou(p) : p \in Positions}
    \cup {InformTargetMissOpp(p) : p \in Positions}

CodecInputs ==
    {[fn |-> "ClientMessage", msg |-> m] : m \in ClientMessages}
    \cup {[fn |-> "ServerMessage", msg |-> m] : m \in ServerMessages}
    \cup {[fn |-> "Position", byte |-> b] : b \in 0..(U8 - 1)}

CodecInit ==
    /\ MatchInit
    /\ PartsIdle
    /\ input \in CodecInputs
    /\ output = None

\* RawMessage::from(message) and ClientMessage::try_from of that frame
ClientCodec ==
    /\ input.fn = "ClientMessage"
    /\ output = None
    /\ LET raw == ClientToRaw(input.msg)
       IN  output' = Some([raw |-> raw, back |-> ClientTryFrom(raw)])
    /\ UNCHANGED <<matchvars, input, boardvars, clientvars>>

\* RawMessage::from(message) and ServerMessage::try_from of that frame
ServerCodec ==
    /\ input.fn = "ServerMessage"
    /\ output = None
    /\ LET raw == ServerToRaw(input.msg)
       IN  output' = Some([raw |-> raw, back |-> ServerTryFrom(raw)])
    /\ UNCHANGED <<matchvars, input, boardvars, clientvars>>

\* the frames with a position byte: Target, the four notices, and the fleet
\* frame of the reference fleet with b as the anchor of its last ship
PositionFrames(b) ==
    <<RawMessage(TARGET, <<b>>),
      RawMessage(INFORMTARGETHIT, <<0, b, 1>>),
      RawMessage(INFORMTARGETHIT, <<1, b, 0>>),
      RawMessage(INFORMTARGETMISS, <<0, b>>),
      RawMessage(INFORMTARGETMISS, <<1, b>>),
      RawMessage(SHIPPOSITIONS,
                 [ClientToRaw(ClientShipPositions(ReferenceFleet)).body
                     EXCEPT ![14] = b])>>

\* Position::frombyte, and TryFrom<RawMessage> on the frames that carry the byte
PositionDecode ==
    /\ input.fn = "Position"
    /\ output = None
    /\ LET frames == PositionFrames(input.byte)
       IN  output' = Some([pos |-> frombyte(input.byte),
                           frames |-> frames,
                           decoded |-> [k \in 1..6 |->
                               IF k \in {1, 6} THEN ClientTryFrom(frames[k])
                               ELSE ServerTryFrom(frames[k])]])
    /\ UNCHANGED <<matchvars, input, boardvars, clientvars>>

CodecNext ==
    \/ ClientCodec
    \/ ServerCodec
    \/ PositionDecode

CodecSpec == CodecInit /\ [][CodecNext]_vars

(***************************************************************************)
(* C16: for every ClientMessage value and every ServerMessage value,       *)
(* decoding the frame that encoding it produces, with the vocabulary of    *)
(* the same direction, yields the original message.                        *)
(***************************************************************************)
C16_DecodeOfEncodeIsIdentity ==
    (output # None /\ input.fn \in {"ClientMessage", "ServerMessage"}) =>
        Unwrap(output).back = Ok(input.msg)

\* a fleet with ships of both orientations has gone through the round trip
C16_Witness ==
    /\ output # None
    /\ input.fn = "ClientMessage"
    /\ input.msg.type = "ShipPositions"
    /\ \E j, k \in 1..5 : input.msg.ships[j].horizontal
                          /\ ~input.msg.ships[k].horizontal
    /\ Unwrap(output).back = Ok(input.msg)

(***************************************************************************)
(* C17: encoding produces the marker and body of the message table: a hit  *)
(* notice is marker 151 with body [who, pos, sunken (0/1)], a miss notice  *)
(* is marker 152 with body [who, pos], with who = 0 for the 'you' and 1    *)
(* for the 'opponent' variants; a ship-positions frame is marker 100 with  *)
(* 5 triples [orientation (1 horizontal, 0 vertical), anchor byte, length] *)
(* in fleet order.                                                         *)
(***************************************************************************)
\* the byte of the position with coordinates <<x, y>>: x in the low nibble
PositionByte(p) == coords(p)[1] + 16 * coords(p)[2]

\* the frame the message table gives for a notice or a fleet
TableFrame(m) ==
    CASE m.type = "InformTargetHitYou" ->
            [typemarker |-> 151,
             body |-> <<0, PositionByte(m.pos), IF m.sunken THEN 1 ELSE 0>>]
      [] m.type = "InformTargetHitOpp" ->
            [typemarker |-> 151,
             body |-> <<1, PositionByte(m.pos), IF m.sunken THEN 1 ELSE 0>>]
      [] m.type = "InformTargetMissYou" ->
            [typemarker |-> 152, body |-> <<0, PositionByte(m.pos)>>]
      [] m.type = "InformTargetMissOpp" ->
            [typemarker |-> 152, body |-> <<1, PositionByte(m.pos)>>]
      [] m.type = "ShipPositions" ->
            [typemarker |-> 100,
             body |-> <<IF m.ships[1].horizontal THEN 1 ELSE 0,
                        PositionByte(m.ships[1].pos), m.ships[1].len>>
                      \o <<IF m.ships[2].horizontal THEN 1 ELSE 0,
                           PositionByte(m.ships[2].pos), m.ships[2].len>>
                      \o <<IF m.ships[3].horizontal THEN 1 ELSE 0,
                           PositionByte(m.ships[3].pos), m.ships[3].len>>
                      \o <<IF m.ships[4].horizontal THEN 1 ELSE 0,
                           PositionByte(m.ships[4].pos), m.ships[4].len>>
                      \o <<IF m.ships[5].horizontal THEN 1 ELSE 0,
                           PositionByte(m.ships[5].pos), m.ships[5].len>>]

TableKinds ==
    {"InformTargetHitYou", "InformTargetHitOpp", "InformTargetMissYou",
     "InformTargetMissOpp", "ShipPositions"}

NibblesBelowTen(b) == (b % 16) < 10 /\ (b \div 16) < 10

\* the error TryFrom<RawMessage> returns for a frame it rejects
FrameRejected(res, frame) ==
    res = Err([kind |-> "Message", typemarker |-> frame.typemarker,
               sizemarker |-> Len(frame.body), body |-> frame.body])

C18_PositionByteDecoding ==
    (output # None /\ input.fn = "Position") =>
        LET b == input.byte
            out == Unwrap(output)
        IN  /\ IsSome(out.pos) <=> NibblesBelowTen(b)
            /\ IsSome(out.pos) => byte(Unwrap(out.pos)) = b
            /\ \A k \in DOMAIN out.frames :
                  IF NibblesBelowTen(b)
                  THEN k \in 1..5 => out.decoded[k].ok
                  ELSE FrameRejected(out.decoded[k], out.frames[k])

\* byte 0x9a (x = 10, y = 9) has been refused by frombyte and in every frame
C18_Witness ==
    /\ output # None
    /\ input = [fn |-> "Position", byte |-> 154]
    /\ Unwrap(output).pos = None
    /\ \A k \in 1..6 : ~Unwrap(output).decoded[k].ok

(***************************************************************************)
(* logic.rs on its own: the constructors of Ship and Ships, applied to one *)
(* ship plan or to one fleet of plans drawn from the bounded sets below.   *)
(***************************************************************************)
\* the lengths of the five ships of a fleet: every order of 2,3,3,4,5, and
\* lists with a length twice too often or a length that is not in the list
FleetLengths ==
    {o \in [1..5 -> 2..5] :
        \A n \in 2..5 : Cardinality({k \in 1..5 : o[k] = n}) = (IF n = 3 THEN 2 ELSE 1)}
    \cup {<<2, 3, 3, 4, 4>>, <<2, 2, 3, 4, 5>>, <<3, 3, 3, 4, 5>>, <<5, 5, 3, 3, 2>>,
          <<2, 3, 4, 4, 5>>, <<1, 3, 3, 4, 5>>, <<2, 3, 3, 4, 6>>, <<0, 3, 3, 4, 5>>}

\* the input is a ship plan (both orientations, every anchor, every length
\* byte) or a fleet of five plans
LogicInit ==
    /\ MatchInit
    /\ PartsIdle
    /\ \/ \E p \in Positions, len \in 0..(U8 - 1) :
             \/ input = [fn |-> "Ship", plan |-> Horizontal(p, len)]
             \/ input = [fn |-> "Ship", plan |-> Vertical(p, len)]
       \/ \E f \in FleetPlans(FleetLengths) \cup {ReferenceFleet, OverlapFleet} :
             input = [fn |-> "Ships", ships |-> f]
    /\ output = None

\* Ship::try_from(plan) in the two builds: the u8 sum coordinate + len
\* overflows when it exceeds 255; a build with overflow checks (debug)
\* panics there, one without (release) goes on with the wrapped sum
ShipTryFromBuilds(plan) ==
    LET c == IF plan.horizontal THEN coords(plan.pos)[1] ELSE coords(plan.pos)[2]
        wrapping == IF ShipTryFrom(plan) THEN "Ok" ELSE "Err"
    IN  IF c + plan.len >= U8 THEN {"panic", wrapping} ELSE {wrapping}

ShipConstruct ==
    /\ input.fn = "Ship"
    /\ output = None
    /\ \E outcome \in ShipTryFromBuilds(input.plan) : output' = Some(outcome)
    /\ UNCHANGED <<matchvars, input, boardvars, clientvars>>

\* Ships::try_from on five ships
ShipsConstruct ==
    /\ input.fn = "Ships"
    /\ output = None
    /\ output' = Some(ShipsTryFrom(input.ships))
    /\ UNCHANGED <<matchvars, input, boardvars, clientvars>>

LogicNext ==
    \/ ShipConstruct
    \/ ShipsConstruct

LogicSpec == LogicInit /\ [][LogicNext]_vars

(***************************************************************************)
(* C19: for every anchor and every length byte 0..255 a ShipPlan is        *)
(* accepted as a Ship if and only if the anchor's coordinate along the     *)
(* orientation plus the length is at most 10, as an unbounded integer.     *)
(***************************************************************************)
\* the ship's extent stays inside the grid
ExtentInGrid(plan) ==
    IF plan.horizontal THEN coords(plan.pos)[1] + plan.len <= 10
    ELSE coords(plan.pos)[2] + plan.len <= 10

C19_ShipAcceptedIffInGrid ==
    (output # None /\ input.fn = "Ship") =>
        (Unwrap(output) = "Ok" <=> ExtentInGrid(input.plan))

(***************************************************************************)
(* C20: a fleet of five ships is accepted if and only if the multiset of   *)
(* its ship lengths is exactly {2,3,3,4,5}, in any order of the ships, and *)
(* no grid cell is covered by two ships; the reference fleet is accepted.  *)
(***************************************************************************)
\* how many ships of the fleet have length n
ShipsOfLength(ships, n) == Cardinality({k \in 1..5 : ships[k].len = n})

LengthsAreTheFleet(ships) ==
    /\ ShipsOfLength(ships, 2) = 1
    /\ ShipsOfLength(ships, 3) = 2
    /\ ShipsOfLength(ships, 4) = 1
    /\ ShipsOfLength(ships, 5) = 1

\* the cells <<x, y>> a ship covers
CellsCovered(ship) ==
    LET x == ship.pos % 16
        y == ship.pos \div 16
    IN  IF ship.horizontal THEN {<<x + d, y>> : d \in 0..(ship.len - 1)}
        ELSE {<<x, y + d>> : d \in 0..(ship.len - 1)}

NoCellCoveredTwice(ships) ==
    \A j, k \in 1..5 : j # k => CellsCovered(ships[j]) \cap CellsCovered(ships[k]) = {}

C20_FleetAcceptedIffLengthsAndNoOverlap ==
    (output # None /\ input.fn = "Ships") =>
        /\ Unwrap(output).ok
              <=> (LengthsAreTheFleet(input.ships) /\ NoCellCoveredTwice(input.ships))
        /\ input.ships = ReferenceFleet => Unwrap(output) = Ok(ReferenceFleet)

\* the reference fleet has been accepted
C20_Witness ==
    /\ input = [fn |-> "Ships", ships |-> ReferenceFleet]
    /\ output = Some(Ok(ReferenceFleet))

(***************************************************************************)
(* prot.rs on its own: decoding of arbitrary frames.  The input is a frame *)
(* (marker, body) drawn from the bounded sets below and decoded with the   *)
(* client-to-server or with the server-to-client vocabulary.               *)
(***************************************************************************)
\* bytes tried as position, who and sunken bytes: positions (0,0), (1,0),
\* (9,0), (9,9) and the non-positions 0x0a, 0x9a, 0xaa, 0xff
ProbeBytes == {0, 1, 9, 10, 153, 154, 170, 255}

\* the bodies of the literal frames
LiteralBodies ==
    {m.body : m \in {HANDSHAKE, ACKNOWLEDGMENT, INVALID, TERMINATECONNECTION,
                     REQUESTSHIPPOSITIONS, REQUESTTARGET, INFORMTARGETSELECTION,
                     INFORMVICTORY, INFORMLOSS}}

\* bodies of 0 to 3 bytes
ShortBodies ==
    {<<>>} \cup {<<b>> : b \in ProbeBytes}
    \cup {<<w, b>> : w \in 0..2, b \in ProbeBytes}
    \cup {<<w, b, s>> : w \in 0..2, b \in ProbeBytes, s \in 0..2}

\* the 15 bytes of a fleet of plans, as From<ClientMessage> lays them out
FleetBody(f) == ClientToRaw(ClientShipPositions(f)).body

\* a 15-byte body with the triple of ship k replaced
WithTriple(body, k, o, a, len) ==
    [body EXCEPT ![3 * k - 2] = o, ![3 * k - 1] = a, ![3 * k] = len]

\* the frames decoded: every marker with every literal and short body;
\* marker 100 with the body of the reference fleet in which one triple is
\* replaced by any orientation byte 0..2, any probe anchor and any length
\* byte, with the bodies of the fleets of LogicSpec, and with bodies of 14
\* and 16 bytes
DecodeInit ==
    /\ MatchInit
    /\ PartsIdle
    /\ \/ \E m \in 0..(U8 - 1), body \in LiteralBodies \cup ShortBodies :
             input = [fn |-> "Frame", raw |-> RawMessage(m, body)]
       \/ \E k \in 1..5, o \in 0..2, a \in ProbeBytes, len \in 0..(U8 - 1) :
             input = [fn |-> "Frame",
                      raw |-> RawMessage(SHIPPOSITIONS,
                                 WithTriple(FleetBody(ReferenceFleet), k, o, a, len))]
       \/ \E f \in FleetPlans(FleetLengths) \cup {ReferenceFleet, OverlapFleet},
             m \in {SHIPPOSITIONS, TARGET} :
             input = [fn |-> "Frame", raw |-> RawMessage(m, FleetBody(f))]
       \/ \E body \in {SubSeq(FleetBody(ReferenceFleet), 1, 14),
                       Append(FleetBody(ReferenceFleet), 0)} :
             input = [fn |-> "Frame", raw |-> RawMessage(SHIPPOSITIONS, body)]
    /\ output = None

\* the outcome of a decoding that panicked
Panicked == [ok |-> FALSE, panic |-> TRUE]

\* ClientMessage::try_from in the two builds: the closure of array::from_fn
\* calls Ship::try_from on each of the five plans before the error flag is
\* looked at, so a build with overflow checks panics when the u8 sum of one
\* of them overflows
ClientTryFromBuilds(message) ==
    {ClientTryFrom(message)}
    \cup (IF /\ message.typemarker = SHIPPOSITIONS
             /\ Len(message.body) = 15
             /\ \E i \in 1..5 :
                   "panic" \in ShipTryFromBuilds(PlanFromBody(message.body, i).plan)
          THEN {Panicked} ELSE {})

\* ClientMessage::try_from(frame)
ClientDecode ==
    /\ input.fn = "Frame"
    /\ output = None
    /\ \E res \in ClientTryFromBuilds(input.raw) :
          output' = Some([by |-> "ClientMessage", res |-> res])
    /\ UNCHANGED <<matchvars, input, boardvars, clientvars>>

\* ServerMessage::try_from(frame)
ServerDecode ==
    /\ input.fn = "Frame"
    /\ output = None
    /\ output' = Some([by |-> "ServerMessage", res |-> ServerTryFrom(input.raw)])
    /\ UNCHANGED <<matchvars, input, boardvars, clientvars>>

DecodeNext ==
    \/ ClientDecode
    \/ ServerDecode

DecodeSpec == DecodeInit /\ [][DecodeNext]_vars

(***************************************************************************)
(* C21: a marker-100 client frame with a 15-byte body decodes to           *)
(* ShipPositions only if all five anchors are valid positions, all five    *)
(* ships lie within the grid and the fleet passes fleet validation         *)
(* (lengths and overlap); otherwise decoding fails with a protocol error   *)
(* that carries the frame's marker, length and body.                       *)
(***************************************************************************)
\* the five plans a 15-byte body spells out
BodyPlans(body) ==
    [i \in 1..5 |-> [horizontal |-> body[3 * i - 2] # 0,
                     pos |-> body[3 * i - 1],
                     len |-> body[3 * i]]]

\* the fleet of a body is one the spec accepts
FleetBodyValid(body) ==
    /\ \A i \in 1..5 : NibblesBelowTen(body[3 * i - 1])
    /\ \A i \in 1..5 : ExtentInGrid(BodyPlans(body)[i])
    /\ LengthsAreTheFleet(BodyPlans(body))
    /\ NoCellCoveredTwice(BodyPlans(body))

FleetFrameDecoded ==
    /\ output # None
    /\ input.fn = "Frame"
    /\ Unwrap(output).by = "ClientMessage"
    /\ input.raw.typemarker = 100
    /\ Len(input.raw.body) = 15

C21_FleetFrameDecodesIffValid ==
    FleetFrameDecoded =>
        IF FleetBodyValid(input.raw.body)
        THEN Unwrap(output).res = Ok(ClientShipPositions(BodyPlans(input.raw.body)))
        ELSE FrameRejected(Unwrap(output).res, input.raw)

(***************************************************************************)
(* C22: decoding any frame (any marker 0..255 and any body, including      *)
(* marker 101 with an empty body and ship-positions bodies with arbitrary  *)
(* length bytes) with either vocabulary returns either a message or a      *)
(* protocol error; it never panics, and a message is returned only for a   *)
(* frame with the marker and body shape of that message.                   *)
(***************************************************************************)
\* the frame has the marker and the body shape the table gives for msg
ShapeOf(by, msg, raw) ==
    IF by = "ClientMessage"
    THEN CASE msg.type = "Handshake" -> raw = HANDSHAKE
           [] msg.type = "Acknowledge" -> raw = ACKNOWLEDGMENT
           [] msg.type = "ShipPositions" ->
                 raw.typemarker = 100 /\ Len(raw.body) = 15
           [] msg.type = "Target" -> raw.typemarker = 101 /\ Len(raw.body) = 1
    ELSE CASE msg.type = "Handshake" -> raw = HANDSHAKE
           [] msg.type = "Invalid" -> raw = INVALID
           [] msg.type = "TerminateConnection" -> raw = TERMINATECONNECTION
           [] msg.type = "RequestShipPositions" -> raw = REQUESTSHIPPOSITIONS
           [] msg.type = "RequestTarget" -> raw = REQUESTTARGET
           [] msg.type = "InformTargetSelection" -> raw = INFORMTARGETSELECTION
           [] msg.type = "InformVictory" -> raw = INFORMVICTORY
           [] msg.type = "InformLoss" -> raw = INFORMLOSS
           [] msg.type \in {"InformTargetHitYou", "InformTargetHitOpp"} ->
                 /\ raw.typemarker = 151
                 /\ Len(raw.body) = 3
                 /\ raw.body[1] = (IF msg.type = "InformTargetHitYou" THEN 0 ELSE 1)
           [] msg.type \in {"InformTargetMissYou", "InformTargetMissOpp"} ->
                 /\ raw.typemarker = 152
                 /\ Len(raw.body) = 2
                 /\ raw.body[1] = (IF msg.type = "InformTargetMissYou" THEN 0 ELSE 1)

C22_DecodingIsTotal ==
    (output # None /\ input.fn = "Frame") =>
        LET res == Unwrap(output).res
        IN  /\ res # Panicked
            /\ IF res.ok THEN ShapeOf(Unwrap(output).by, res.val, input.raw)
               ELSE FrameRejected(res, input.raw)

(***************************************************************************)
(* logic.rs on its own: a Board built from a valid fleet, on which target  *)
(* and allsunken are called in any order.                                  *)
(***************************************************************************)
\* a call of target fires at one of the first ShotWindow ship cells not yet
\* targeted (in the order of their bytes), at one of the first WaterShots
\* water cells, or again at the smallest or the largest cell targeted before
ShotWindow == 2
WaterShots == 1

\* a fleet with ships of both orientations whose cells interleave in the
\* order of their bytes; its first ship covers (0,0) and (1,0)
MixedFleet ==
    <<Horizontal(Pos(0, 0), 2), Vertical(Pos(2, 0), 3), Vertical(Pos(3, 0), 3),
      Vertical(Pos(9, 0), 4), Horizontal(Pos(2, 5), 5)>>

\* the fleets the boards are built from: values of type Ships
BoardFleets == {f \in {MixedFleet} : ShipsTryFrom(f).ok}

\* the n smallest elements of a set of positions
RECURSIVE FirstOf(_, _)
FirstOf(S, n) ==
    IF n = 0 \/ S = {} THEN {}
    ELSE {SetMin(S)} \cup FirstOf(S \ {SetMin(S)}, n - 1)

\* the positions a call of target is made with
Shots(b) ==
    LET ship == {p \in Positions : b.shipmap[p] # U8MAX}
    IN  FirstOf(ship \ b.hitmap, ShotWindow)
        \cup FirstOf(Positions \ ship, WaterShots)
        \cup (IF b.hitmap = {} THEN {} ELSE {SetMin(b.hitmap), SetMax(b.hitmap)})

\* Board::new(ships)
BoardInit ==
    /\ MatchInit
    /\ \E f \in BoardFleets :
          /\ input = [fn |-> "new", ships |-> f]
          /\ soloboard = BoardNew(f)
    /\ output = None
    /\ reported = [p \in Positions |-> None]
    /\ client = None
    /\ wire = None

\* board.target(pos)
BoardTarget ==
    \E pos \in Shots(soloboard) :
        LET r == target(soloboard, pos)
        IN  /\ input' = [fn |-> "target", pos |-> pos]
            /\ output' = Some(r[1])
            /\ soloboard' = r[2]
            /\ reported' = IF reported[pos] = None
                           THEN [reported EXCEPT ![pos] = r[1]]
                           ELSE reported
            /\ UNCHANGED <<matchvars, clientvars>>

\* board.allsunken()
BoardAllsunken ==
    /\ input' = [fn |-> "allsunken"]
    /\ output' = Some(allsunken(soloboard))
    /\ UNCHANGED <<matchvars, boardvars, clientvars>>

BoardNext ==
    \/ BoardTarget
    \/ BoardAllsunken

BoardSpec == BoardInit /\ [][BoardNext]_vars

(***************************************************************************)
(* C23: Board.target on a cell not targeted before marks that cell and     *)
(* returns Miss if no ship covers it, and Hit(sunken) if a ship covers it, *)
(* where sunken is true exactly when every cell of that particular ship is *)
(* targeted after this call (a 2-cell ship yields Hit(false), then         *)
(* Hit(true)).                                                             *)
(***************************************************************************)
\* the cell <<x, y>> of a position
CellOf(pos) == <<pos % 16, pos \div 16>>

\* the ships of the fleet that cover the position
Covering(ships, pos) == {i \in 1..5 : CellOf(pos) \in CellsCovered(ships[i])}

\* every cell of ship i is in the hit map
WhollyTargeted(ships, i, hitmap) ==
    \A p \in Positions : CellOf(p) \in CellsCovered(ships[i]) => p \in hitmap

\* the step is a call target(pos)
TargetCall(pos) == input'.fn = "target" /\ input'.pos = pos

C23_TargetReportsMissHitSunken ==
    [][\A pos \in Positions :
          (TargetCall(pos) /\ pos \notin soloboard.hitmap) =>
             /\ pos \in soloboard'.hitmap
             /\ LET cov == Covering(soloboard.ships, pos)
                IN  IF cov = {}
                    THEN output' = Some(Some([kind |-> "Miss", sunken |-> FALSE]))
                    ELSE \E sunken \in BOOLEAN :
                            /\ output' = Some(Some([kind |-> "Hit", sunken |-> sunken]))
                            /\ sunken <=> \A i \in cov :
                                  WhollyTargeted(soloboard.ships, i, soloboard'.hitmap)
      ]_vars

\* the ship at (0,0),(1,0) has been hit at (0,0) with Hit(false) and then
\* at (1,0) with Hit(true), while other ships are still afloat
C23_Witness ==
    /\ soloboard # None
    /\ input = [fn |-> "target", pos |-> Pos(1, 0)]
    /\ output = Some(Some([kind |-> "Hit", sunken |-> TRUE]))
    /\ reported[Pos(0, 0)] = Some([kind |-> "Hit", sunken |-> FALSE])
    /\ Pos(2, 0) \notin soloboard.hitmap

(***************************************************************************)
(* C24: a call of Board.target on a cell that was already targeted returns *)
(* nothing and leaves the whole board unchanged; across any sequence of    *)
(* calls the outcome first reported for a cell (Miss or Hit) is never      *)
(* later reported differently.                                             *)
(***************************************************************************)
C24_RepeatedTargetHasNoEffect ==
    [][\A pos \in Positions :
          TargetCall(pos) =>
             /\ pos \in soloboard.hitmap =>
                   (output' = Some(None) /\ soloboard' = soloboard)
             /\ reported[pos] # None =>
                   /\ reported'[pos] = reported[pos]
                   /\ output' \in {Some(None), Some(reported[pos])}
             /\ \A q \in Positions \ {pos} : reported'[q] = reported[q]
      ]_vars

\* a water cell reported Miss has been targeted again, after a ship was hit
C24_Witness ==
    /\ soloboard # None
    /\ input.fn = "target"
    /\ Covering(soloboard.ships, input.pos) = {}
    /\ reported[input.pos] = Some([kind |-> "Miss", sunken |-> FALSE])
    /\ output = Some(None)
    /\ \E p \in soloboard.hitmap : Covering(soloboard.ships, p) # {}

(***************************************************************************)
(* C25: over any sequence of board operations a hit-map cell that has      *)
(* become targeted never reverts to untargeted; each target(pos) call      *)
(* changes at most the hit-map cell at pos, and the fleet and the          *)
(* cell-to-ship map do not change after the board is built.                *)
(***************************************************************************)
C25_HitMapOnlyGrowsAtTarget ==
    [][/\ soloboard.hitmap \subseteq soloboard'.hitmap
       /\ soloboard'.hitmap \ soloboard.hitmap
             \subseteq (IF input'.fn = "target" THEN {input'.pos} ELSE {})
       /\ soloboard'.ships = soloboard.ships
       /\ soloboard'.shipmap = soloboard.shipmap
      ]_vars

\* allsunken has been called on a board with at least four cells targeted,
\* one of them a ship cell
C25_Witness ==
    /\ soloboard # None
    /\ Cardinality(soloboard.hitmap) >= 4
    /\ input.fn = "allsunken"
    /\ \E p \in soloboard.hitmap :
          /\ Covering(soloboard.ships, p) # {}
          /\ reported[p] # None
    /\ soloboard.ships = MixedFleet

(***************************************************************************)
(* C26: in every reachable board state allsunken() is true if and only if  *)
(* every cell covered by any of the 5 ships is targeted; targeted water    *)
(* cells do not affect it.                                                 *)
(***************************************************************************)
\* every cell a ship of the fleet covers is in the hit map
EveryShipCellTargeted(b) ==
    \A i \in 1..5 : WhollyTargeted(b.ships, i, b.hitmap)

C26_AllsunkenIffEveryShipCellTargeted ==
    /\ soloboard # None =>
          (allsunken(soloboard) <=> EveryShipCellTargeted(soloboard))
    /\ (soloboard # None /\ input.fn = "allsunken") =>
          (Unwrap(output) <=> EveryShipCellTargeted(soloboard))

\* allsunken has returned true on a board with all 17 ship cells and a
\* water cell targeted
C26_Witness ==
    /\ soloboard # None
    /\ input.fn = "allsunken"
    /\ output = Some(TRUE)
    /\ Cardinality(soloboard.hitmap) = 18

(***************************************************************************)
(* client.rs on its own: Client::play of a connected Client, reading the   *)
(* frames of any server.  The client is [ships, selfhits, opphits,         *)
(* message] with the locals of play: pc, victory and the value returned.   *)
(***************************************************************************)
\* how many frames the client reads
MaxReads == 3

\* client::Error
ClientProtocol(e) == [kind |-> "Protocol", inner |-> e]
ClientInterface == [kind |-> "Interface"]
ClientNetworking(iokind) == [kind |-> "Networking", io |-> iokind]

\* the frames a server may write: every ServerMessage, the notices with the
\* positions (0,0) and (1,0), and two frames that are no ServerMessage
ServerFrames ==
    {ServerToRaw(m) : m \in
        {Plain(t) : t \in {"Handshake", "Invalid", "RequestShipPositions",
                           "RequestTarget", "InformTargetSelection",
                           "InformVictory", "InformLoss", "TerminateConnection"}}
        \cup {InformTargetHitYou(p, b) : p \in {Pos(0, 0), Pos(1, 0)}, b \in BOOLEAN}
        \cup {InformTargetHitOpp(p, b) : p \in {Pos(0, 0), Pos(1, 0)}, b \in BOOLEAN}
        \cup {InformTargetMissYou(p) : p \in {Pos(0, 0), Pos(1, 0)}}
        \cup {InformTargetMissOpp(p) : p \in {Pos(0, 0), Pos(1, 0)}}}
    \cup {RawMessage(TARGET, <<>>), RawMessage(INFORMTARGETHIT, <<0, BadPositionByte, 0>>)}

\* the positions interface.selecttarget may return
SelectedTargets == {Pos(0, 0), Pos(9, 9)}

\* the state Client::connect returns
ClientInit ==
    /\ MatchInit
    /\ input = None
    /\ output = None
    /\ soloboard = None
    /\ reported = None
    /\ client = [ships    |-> ReferenceFleet,
                 selfhits |-> [p \in Positions |-> None],
                 opphits  |-> [p \in Positions |-> None],
                 message  |-> <<"SuccessfullyConnected">>,
                 pc       |-> "start",
                 victory  |-> None,
                 ret      |-> None]
    /\ wire = [read |-> <<>>, written |-> <<>>, ui |-> <<>>]

\* play returns res
Returns(c, res) == [c EXCEPT !.pc = "returned", !.ret = Some(res)]

\* interface.displayboard at the start of play
ClientStart ==
    /\ client.pc = "start"
    /\ \E shown \in BOOLEAN :
          client' = IF shown THEN [client EXCEPT !.pc = "loop"]
                    ELSE Returns(client, Err(ClientInterface))
    /\ wire' = [wire EXCEPT !.ui = Append(@, "displayboard")]
    /\ UNCHANGED <<matchvars, input, output, boardvars>>

\* a notice arm of play: the entry pushed to the log and the grid written
NoticeArm_othergrid(c, request) ==
    LET hit == request.type \in {"InformTargetHitYou", "InformTargetHitOpp"}
        you == request.type \in {"InformTargetHitYou", "InformTargetMissYou"}
        mark == Some(IF hit THEN Hit(request.sunken) ELSE Miss)
    IN  IF you THEN [c EXCEPT !.opphits[request.pos] = mark]
        ELSE [c EXCEPT !.selfhits[request.pos] = mark]

NoticeArm(c, request) ==
    LET hit == request.type \in {"InformTargetHitYou", "InformTargetHitOpp"}
        you == request.type \in {"InformTargetHitYou", "InformTargetMissYou"}
        entry == IF hit
                 THEN (IF request.sunken THEN (IF you THEN "ShipSunken" ELSE "OppShipSunken")
                       ELSE (IF you THEN "ShipHit" ELSE "OppShipHit"))
                 ELSE (IF you THEN "ShipMissed" ELSE "OppShipMissed")
        mark == Some(IF hit THEN Hit(request.sunken) ELSE Miss)
        logged == [c EXCEPT !.message = Append(@, entry)]
    IN  IF you THEN [logged EXCEPT !.selfhits[request.pos] = mark]
        ELSE [logged EXCEPT !.opphits[request.pos] = mark]

\* the match of play with every request acknowledged
PlayArm_ackall(c, request, selected) ==
    [before |-> c, ui |-> "none", after |-> c, response |-> ClientAcknowledge]

\* the arms of the match in play that yield a response: the client before
\* the call of the interface, the interface function called ("none" if
\* none), the client after it, and the response
PlayArm(c, request, selected) ==
    CASE request.type = "RequestShipPositions" ->
            [before |-> c, ui |-> "none", after |-> c,
             response |-> ClientShipPositions(c.ships)]
      [] request.type = "RequestTarget" ->
            LET logged == [c EXCEPT !.message = Append(@, "SelectTarget")]
            IN  [before |-> logged, ui |-> "selecttarget", after |-> logged,
                 response |-> ClientTarget(selected)]
      [] request.type = "Invalid" ->
            [before |-> c, ui |-> "none", after |-> c, response |-> ClientAcknowledge]
      [] request.type = "InformTargetSelection" ->
            LET logged == [c EXCEPT !.message = Append(@, "WaitForOpp")]
            IN  [before |-> logged, ui |-> "none", after |-> logged,
                 response |-> ClientAcknowledge]
      [] request.type \in {"InformTargetHitYou", "InformTargetHitOpp",
                           "InformTargetMissYou", "InformTargetMissOpp"} ->
            [before |-> NoticeArm(c, request), ui |-> "none",
             after |-> NoticeArm(c, request), response |-> ClientAcknowledge]
      [] request.type = "InformVictory" ->
            [before |-> c, ui |-> "displayvictory",
             after |-> [c EXCEPT !.victory = Some(TRUE)],
             response |-> ClientAcknowledge]
      [] request.type = "InformLoss" ->
            [before |-> c, ui |-> "displayloss",
             after |-> [c EXCEPT !.victory = Some(FALSE)],
             response |-> ClientAcknowledge]

\* the view rendered after a reply
Rendered(c) ==
    IF c.victory = None THEN "displayboard"
    ELSE IF Unwrap(c.victory) THEN "displayvictory" ELSE "displayloss"

\* the TerminateConnection arm without the look at victory
terminated_aswin(victory) == Ok(TRUE)

\* the TerminateConnection arm: victory.ok_or(ConnectionAborted)
terminated(victory) ==
    IF victory = None THEN Err(ClientNetworking("ConnectionAborted"))
    ELSE Ok(Unwrap(victory))

\* one turn of the loop of play: readmessage, the match on the request,
\* sendmessage of the response and the rendering
ClientPlay ==
    /\ client.pc = "loop"
    /\ Len(wire.read) < MaxReads
    /\ \/ \* read_exact fails
          /\ client' = Returns(client, Err(ClientProtocol(NetworkingError)))
          /\ UNCHANGED wire
       \/ \E frame \in ServerFrames :
            LET read == ServerTryFrom(frame)
            IN  IF ~read.ok
                THEN /\ client' = Returns(client, Err(ClientProtocol(read.err)))
                     /\ UNCHANGED wire
                ELSE IF read.val.type = "TerminateConnection"
                THEN \E written \in BOOLEAN :
                       IF written
                       THEN /\ client' = Returns(client, terminated(client.victory))
                            /\ wire' = [wire EXCEPT !.read = Append(@, read.val),
                                                    !.written = Append(@, ClientAcknowledge)]
                       ELSE /\ client' = Returns(client, Err(ClientProtocol(NetworkingError)))
                            /\ wire' = [wire EXCEPT !.read = Append(@, read.val)]
                ELSE IF read.val.type = "Handshake"
                THEN /\ client' = Returns(client, Err(ClientNetworking("InvalidData")))
                     /\ wire' = [wire EXCEPT !.read = Append(@, read.val)]
                ELSE \E selected \in SelectedTargets, called, written, shown \in BOOLEAN :
                       LET arm == PlayArm(client, read.val, selected)
                           calls == IF arm.ui = "none" THEN <<>> ELSE <<arm.ui>>
                       IN  IF arm.ui # "none" /\ ~called
                           THEN /\ client' = Returns(arm.before, Err(ClientInterface))
                                /\ wire' = [wire EXCEPT !.read = Append(@, read.val),
                                                        !.ui = @ \o calls]
                           ELSE IF ~written
                           THEN /\ client' = Returns(arm.after,
                                                     Err(ClientProtocol(NetworkingError)))
                                /\ wire' = [wire EXCEPT !.read = Append(@, read.val),
                                                        !.ui = @ \o calls]
                           ELSE /\ client' = IF shown THEN arm.after
                                             ELSE Returns(arm.after, Err(ClientInterface))
                                /\ wire' = [wire EXCEPT
                                               !.read = Append(@, read.val),
                                               !.written = Append(@, arm.response),
                                               !.ui = @ \o calls \o <<Rendered(arm.after)>>]
    /\ UNCHANGED <<matchvars, input, output, boardvars>>

ClientNext ==
    \/ ClientStart
    \/ ClientPlay

ClientSpec == ClientInit /\ [][ClientNext]_vars

(***************************************************************************)
(* C27: when the client receives TerminateConnection it sends one final    *)
(* Acknowledge and returns: the outcome of the last Victory/Loss notice if *)
(* one was received, and an abnormal-termination failure (never a win/loss *)
(* result) if no Victory/Loss notice was received before.  When the socket *)
(* refuses the Acknowledge, that networking failure is what play returns.  *)
(***************************************************************************)
\* the indices of the Victory/Loss notices among the messages read
OutcomeNotices == {k \in 1..Len(wire.read) :
                      wire.read[k].type \in {"InformVictory", "InformLoss"}}

TerminateRead ==
    /\ client # None
    /\ wire.read # <<>>
    /\ wire.read[Len(wire.read)].type = "TerminateConnection"

\* the final Acknowledge has been written
AcknowledgedLast ==
    /\ Len(wire.written) = Len(wire.read)
    /\ wire.written[Len(wire.written)] = [type |-> "Acknowledge"]

C27_TerminateReturnsTheOutcome ==
    /\ TerminateRead =>
          /\ client.pc = "returned"
          /\ Len(wire.written) \in {Len(wire.read) - 1, Len(wire.read)}
          /\ Len(wire.written) = Len(wire.read) =>
                /\ AcknowledgedLast
                /\ IF OutcomeNotices = {}
                   THEN client.ret = Some([ok |-> FALSE,
                            err |-> [kind |-> "Networking", io |-> "ConnectionAborted"]])
                   ELSE client.ret = Some([ok |-> TRUE,
                            val |-> wire.read[SetMax(OutcomeNotices)].type = "InformVictory"])
          /\ Len(wire.written) < Len(wire.read) =>
                client.ret = Some([ok |-> FALSE,
                    err |-> [kind |-> "Protocol", inner |-> [kind |-> "Networking"]]])
          /\ OutcomeNotices = {} => ~Unwrap(client.ret).ok
    /\ (client # None /\ client.ret # None /\ Unwrap(client.ret).ok) => TerminateRead

\* after a Loss and then a Victory notice the client has acknowledged
\* TerminateConnection and returned Ok(true)
C27_Witness ==
    /\ TerminateRead
    /\ AcknowledgedLast
    /\ wire.read[1].type = "InformLoss"
    /\ wire.read[2].type = "InformVictory"
    /\ client.ret = Some(Ok(TRUE))

(***************************************************************************)
(* C28 as stated: in the play loop the client sends exactly one            *)
(* ClientMessage for every ServerMessage it reads (a failure of the        *)
(* interface or of the socket aside), and it is the reply the server's     *)
(* Middleware expects for that message: ShipPositions(own fleet) for a     *)
(* ship request, Target for a target request, Acknowledge for every        *)
(* notice, Invalid and TerminateConnection.                                *)
(***************************************************************************)
\* play has returned a failure of the interface or of the socket
InterfaceOrSocketFailed ==
    /\ client.ret # None
    /\ ~Unwrap(client.ret).ok
    /\ \/ Unwrap(client.ret).err.kind = "Interface"
       \/ Unwrap(client.ret).err = [kind |-> "Protocol", inner |-> [kind |-> "Networking"]]

\* the command whose frame is the request
CommandOf(request) ==
    IF request.type = "RequestShipPositions" THEN [type |-> "RequestShips"] ELSE request

\* the reply is the one the claim names for the request, and the one
\* handlecmd does not turn into Invalid
ExpectedReply(request, reply) ==
    /\ CASE request.type = "RequestShipPositions" ->
              reply = [type |-> "ShipPositions", ships |-> client.ships]
         [] request.type = "RequestTarget" ->
              reply.type = "Target" /\ reply.pos \in Positions
         [] OTHER -> reply = [type |-> "Acknowledge"]
    /\ request.type \notin {"Invalid", "Handshake"} =>
          handlecmd(CommandOf(request), reply) # Invalid

RECURSIVE SumOver(_, _)
SumOver(f, S) ==
    IF S = {} THEN 0
    ELSE LET k == CHOOSE k \in S : TRUE IN f[k] + SumOver(f, S \ {k})

\* how many results Middleware i has sent back to the coordinator
ResultsReturned(i) ==
    SumOver([k \in CommandKinds |-> SumOver(returned[i][k], ResultKinds)], CommandKinds)

\* the frame Middleware i is about to read is a Handshake
HandshakeInbound(i) ==
    c2s[i] # <<>> /\ Head(c2s[i]) = [typemarker |-> 1, body |-> <<72, 69, 76, 79>>]

\* Middleware i takes a command in this step
CommandTaken(i) == Len(cmdq'[i]) < Len(cmdq[i])

\* the readmessage of Middleware i returns in this step
ReadReturns(i) == mwpc[i] = "read" /\ mwpc'[i] # "read"

C29_OneExchangeOneResult ==
    [][\A i \in Players :
        /\ CommandTaken(i) =>
              LET cmd == Head(cmdq[i])
                  frame == IF cmd.type = "RequestShips" THEN "RequestShipPositions"
                           ELSE cmd.type
              IN  /\ mwpc[i] = "recv"
                  /\ Len(cmdq'[i]) = Len(cmdq[i]) - 1
                  /\ c2s'[i] = c2s[i]
                  /\ IF cmd.type = "Handshake"
                     THEN /\ mwpc'[i] = "read"
                          /\ sent'[i] = sent[i]
                          /\ returned'[i] = returned[i]
                     ELSE \/ /\ mwpc'[i] = "read"
                             /\ sent'[i] = [sent[i] EXCEPT ![frame] = @ + 1]
                             /\ returned'[i] = returned[i]
                          \/ /\ mwpc'[i] = "recv"
                             /\ sent'[i] = sent[i]
                             /\ returned'[i] =
                                   [returned[i] EXCEPT ![cmd.type]["Err"] = @ + 1]
        /\ ReadReturns(i) =>
              /\ mwpc'[i] = "recv"
              /\ Len(c2s[i]) - Len(c2s'[i]) \in {0, 1}
              /\ \E t \in ResultKinds :
                    returned'[i] = [returned[i] EXCEPT ![mwcmd[i].type][t] = @ + 1]
              /\ IF sent'[i] # sent[i]
                 THEN /\ mwcmd[i].type = "Handshake"
                      /\ HandshakeInbound(i)
                      /\ sent'[i] = [sent[i] EXCEPT !["Handshake"] = @ + 1]
                      /\ returned'[i] =
                            [returned[i] EXCEPT !["Handshake"]["Success"] = @ + 1]
                 ELSE ~(mwcmd[i].type = "Handshake" /\ HandshakeInbound(i))
                         \/ returned'[i] =
                               [returned[i] EXCEPT !["Handshake"]["Err"] = @ + 1]
        /\ ~(CommandTaken(i) \/ ReadReturns(i)) =>
              (sent'[i] = sent[i] /\ returned'[i] = returned[i])
      ]_vars

\* Middleware 1 has done the exchanges of Handshake, RequestShips and
\* RequestTarget and has returned one result for each
C29_Witness ==
    /\ pc # "start"
    /\ returned[1]["Handshake"]["Success"] = 1
    /\ returned[1]["RequestShips"]["GetShips"] = 1
    /\ returned[1]["RequestTarget"]["GetTarget"] = 1
    /\ sent[1]["Handshake"] = 1
    /\ sent[1]["RequestShipPositions"] = 1
    /\ sent[1]["RequestTarget"] = 1
    /\ ResultsReturned(1) = 3
    /\ mwpc[1] = "recv"

(***************************************************************************)
(* C30: when a command fails in a Middleware with a socket or decode       *)
(* error, that error is sent back as the result of the command and the     *)
(* Middleware's loop then exits: it does not wait for, accept or serve any *)
(* further command on that connection.                                     *)
(***************************************************************************)
\* Middleware i has returned an error for a command
ErrorReturned(i) == \E k \in CommandKinds : returned[i][k]["Err"] > 0

C30_FailedMiddlewareExits ==
    \A i \in Players : ErrorReturned(i) => mwpc[i] = "exited"

(***************************************************************************)
(* Vocabulary of C31 and C32: the branch of a join! that receives a result *)
(* whose shape is not the one expected for the command it issued.          *)
(***************************************************************************)
\* the shape getships, gettarget and informmw expect for a command
ShapeExpected(kind) ==
    CASE kind = "RequestShips" -> "GetShips"
      [] kind = "RequestTarget" -> "GetTarget"
      [] OTHER -> "Success"

\* the branch of player i of the pending join! receives its result in this step
RecvLeg(i) == pc \in JoinPcs /\ legs[i] = None /\ Len(resq'[i]) < Len(resq[i])

\* the result at the head of the channel of player i is an Ok(_) of another
\* shape than the one expected
Mismatched(i) ==
    /\ resq[i] # <<>>
    /\ Head(resq[i]).ok
    /\ Head(resq[i]).val.type # ShapeExpected(legcmd[i].type)

IsMismatchError(r) == ~r.ok /\ r.err.kind = "Middleware"

\* the branch of player j that returned before this step returned a
\* Middleware-mismatch error
ReturnedMismatch(j) == legs[j] # None /\ IsMismatchError(Unwrap(legs[j]))

\* the error of the branch of player j, which has returned or returns in
\* this step, when it is no Middleware-mismatch error
OtherError(j, e) ==
    IF legs[j] # None
    THEN ~Unwrap(legs[j]).ok /\ Unwrap(legs[j]).err = e
    ELSE resq[j] # <<>> /\ ~Head(resq[j]).ok /\ Head(resq[j]).err = e

(***************************************************************************)
(* C31 as stated: whenever the result returned for RequestShips,           *)
(* RequestTarget or any notice/termination command does not have the shape *)
(* expected for it, the coordinator ends that phase with a                 *)
(* Middleware-mismatch error and never treats the result as a success or   *)
(* substitutes a default value.                                            *)
(***************************************************************************)
C31_MismatchEndsPhaseWithMismatchError ==
    [][\A i \in Players :
        /\ (RecvLeg(i) /\ Mismatched(i)) =>
              IF legs[3 - i] = None
              THEN pc' = pc /\ IsMismatchError(Unwrap(legs'[i]))
              ELSE pc' = "done" /\ IsMismatchError(Unwrap(result'))
        /\ (RecvLeg(i) /\ ReturnedMismatch(3 - i)) =>
              (pc' = "done" /\ IsMismatchError(Unwrap(result')))
      ]_vars

\* the join! of a phase returns with a mismatched branch: the phase ends
\* the match with an error, the mismatch error or the error of the other
\* branch; the cleanup drops what its branches return
MismatchEnds(i) ==
    /\ pc' = "done"
    /\ IF pc = "cleanup" THEN result' = Some(Ok(Unit))
       ELSE /\ ~Unwrap(result').ok
            /\ \/ IsMismatchError(Unwrap(result'))
               \/ /\ Unwrap(result').err.kind # "Middleware"
                  /\ OtherError(3 - i, Unwrap(result').err)

(***************************************************************************)
(* C31 amended: whenever the result returned for RequestShips,             *)
(* RequestTarget or a notice/termination command does not have the shape   *)
(* expected for it, the branch that issued the command returns a           *)
(* Middleware-mismatch error; a phase of Instance::run or of the turn loop *)
(* then ends the match with an error (the mismatch error, or the error of  *)
(* the other branch of the same join! when that branch failed too and is   *)
(* looked at first) and never goes on as after a success or with a default *)
(* value.  The cleanup TerminateConnection drops the results of its        *)
(* branches: a mismatch there leaves the match successful.                 *)
(***************************************************************************)
C31_MismatchIsNeverASuccess ==
    [][\A i \in Players :
        /\ (RecvLeg(i) /\ Mismatched(i)) =>
              IF legs[3 - i] = None
              THEN /\ pc' = pc
                   /\ legs'[i] = Some(Err(Middleware(legcmd[i], Head(resq[i]).val)))
                         \/ (legcmd[i].type = "RequestTarget"
                                /\ IsMismatchError(Unwrap(legs'[i])))
              ELSE MismatchEnds(i)
        /\ (RecvLeg(i) /\ ReturnedMismatch(3 - i)) => MismatchEnds(3 - i)
      ]_vars

\* player 1 was asked for a target and answered with an Acknowledge: the
\* match has ended with a Middleware-mismatch error
C31_Witness ==
    /\ pc = "done"
    /\ IsMismatchError(Unwrap(result))
    /\ Unwrap(result).err.got = Invalid
    /\ returned[1]["RequestTarget"]["Invalid"] = 1
    /\ returned[2]["InformTargetSelection"]["Success"] = 1
    /\ issued[1]["InformTargetHitOpp"] = 0
    /\ issued[1]["InformTargetMissOpp"] = 0

(***************************************************************************)
(* C32: a Middleware-mismatch error records as 'requested' the command     *)
(* that was actually issued to the Middleware and as 'got' the result that *)
(* came back; in particular a mismatched reply to a target request names   *)
(* RequestTarget.                                                          *)
(***************************************************************************)
C32_MismatchNamesTheCommandIssued ==
    [][\A i \in Players :
        (RecvLeg(i) /\ Mismatched(i)) =>
            LET named == Err(Middleware(legcmd[i], Head(resq[i]).val))
            IN  /\ legs[3 - i] = None => legs'[i] = Some(named)
                /\ (legs[3 - i] # None /\ IsMismatchError(Unwrap(result'))) =>
                      \/ result' = Some(named)
                      \/ ReturnedMismatch(3 - i) /\ result' = legs[3 - i]
      ]_vars

(***************************************************************************)
(* C33: in every reachable state each connection has at most one           *)
(* outstanding command: the coordinator never sends a command to a         *)
(* Middleware before it has received the result of the previous command    *)
(* sent to that Middleware, so neither channel of a connection ever holds  *)
(* more than one item and no send blocks on the capacity of 10.            *)
(***************************************************************************)
\* mpsc::channel(10)
CHANNELCAPACITY == 10

\* the commands of connection i the coordinator has sent and not yet
\* received the result of: in the command channel, in the hands of the
\* Middleware, or as a result in the result channel
Outstanding(i) ==
    Len(cmdq[i]) + (IF mwpc[i] = "read" THEN 1 ELSE 0) + Len(resq[i])

C33_OneOutstandingCommand ==
    \A i \in Players :
        /\ Outstanding(i) <= 1
        /\ Len(cmdq[i]) <= 1
        /\ Len(resq[i]) <= 1
        /\ Len(cmdq[i]) < CHANNELCAPACITY
        /\ Len(resq[i]) < CHANNELCAPACITY
        /\ mwpc[i] = "read" <=> mwcmd[i] # NoCmd
        \* the branch of a join! that has its result has nothing outstanding
        /\ legs[i] # None => Outstanding(i) = 0

\* each connection has a command outstanding at another place: player 1's
\* notice is with its Middleware, player 2's result waits in the channel
C33_Witness ==
    /\ pc = "inform"
    /\ mwpc[1] = "read"
    /\ cmdq[1] = <<>> /\ resq[1] = <<>>
    /\ Len(resq[2]) = 1
    /\ mwpc[2] = "recv"
    /\ legs = [i \in Players |-> None]

(***************************************************************************)
(* C34: the match phases occur in order: no ship request is issued to      *)
(* either player before both Handshake results are Success, no target      *)
(* request or notice is issued before both fleets have been received, and  *)
(* no command other than TerminateConnection is issued after Victory/Loss  *)
(* has been sent.                                                          *)
(***************************************************************************)
\* a command of kind k is issued to player i in this step
Issues(i, k) == issued'[i][k] > issued[i][k]

\* the commands of the turn loop before the end of the match
TurnKinds ==
    {"RequestTarget", "InformTargetSelection", "InformTargetHitYou",
     "InformTargetMissYou", "InformTargetHitOpp", "InformTargetMissOpp",
     "InformVictory", "InformLoss"}

BothHandshakesSucceeded ==
    \A j \in Players : returned[j]["Handshake"]["Success"] = 1 /\ resq[j] = <<>>

\* both Middlewares have returned a fleet and the coordinator has built the
\* boards from them (in this step at the latest)
BothFleetsReceived ==
    /\ \A j \in Players : returned[j]["RequestShips"]["GetShips"] = 1
    /\ boards' # <<>>

C34_PhasesInOrder ==
    [][\A i \in Players, k \in CommandKinds :
        Issues(i, k) =>
            /\ k = "Handshake" => pc = "start"
            /\ k = "RequestShips" =>
                  BothHandshakesSucceeded' /\ issued[i]["Handshake"] = 1
            /\ k \in TurnKinds \cup {"TerminateConnection"} =>
                  BothFleetsReceived /\ issued[i]["RequestShips"] = 1
            /\ k \in {"InformVictory", "InformLoss"} => ~VictoryLossIssued
            /\ VictoryLossIssued => k = "TerminateConnection"
      ]_vars

\* a match played through all its phases: handshake, fleets, turns with a
\* miss and hits, Victory/Loss, and the TerminateConnection commands
C34_Witness ==
    /\ Succeeded
    /\ \A j \in Players : issued[j]["Handshake"] = 1 /\ issued[j]["RequestShips"] = 1
    /\ issued[1]["RequestTarget"] > 0
    /\ issued[1]["InformTargetMissOpp"] > 0
    /\ issued[1]["InformVictory"] + issued[2]["InformVictory"] = 1
    /\ \A j \in Players : issued[j]["TerminateConnection"] > 0

(***************************************************************************)
(* server.rs: the turn loop of Instance::play on its own, played to the    *)
(* end.  An action is one call of playturn; the results the two            *)
(* Middlewares send back for its commands are its inputs.  The boards are  *)
(* built from two valid fleets, as Instance::run builds them.              *)
(***************************************************************************)
\* the fleets of player 1 and of player 2
TurnFleets == <<ReferenceFleet, MixedFleet>>

\* the results a Middleware returns for a target request on the board of
\* opp: the first ship cell not fired at, the first water cell not fired
\* at, the last cell fired at, a reply of another shape
TargetResults(opp) ==
    LET board == boards[opp]
        ship == {p \in Positions : board.shipmap[p] # U8MAX}
        water == Positions \ ship
    IN  {Ok(GetTarget(p)) :
            p \in (IF ship \ board.hitmap = {} THEN {} ELSE {SetMin(ship \ board.hitmap)})
                  \cup (IF water \ board.hitmap = {} THEN {} ELSE {SetMin(water \ board.hitmap)})
                  \cup (IF board.hitmap = {} THEN {} ELSE {SetMax(board.hitmap)})}
        \cup {Ok(Invalid)}

\* the results a Middleware returns for a notice
AckResults == {Ok(Success), Ok(Invalid)}

\* the state in which Instance::run calls play
TurnInit ==
    /\ pc = "play"
    /\ turn = 0
    /\ boards = <<BoardNew(TurnFleets[1]), BoardNew(TurnFleets[2])>>
    /\ legs = [i \in Players |-> None]
    /\ legcmd = [i \in Players |-> NoCmd]
    /\ info = None
    /\ result = None
    /\ cmdq = [i \in Players |-> <<>>]
    /\ resq = [i \in Players |-> <<>>]
    /\ mwpc = [i \in Players |-> "recv"]
    /\ mwcmd = [i \in Players |-> NoCmd]
    /\ s2c = [i \in Players |-> <<>>]
    /\ c2s = [i \in Players |-> <<>>]
    /\ open = [i \in Players |-> TRUE]
    /\ closedin = [i \in Players |-> "open"]
    /\ hello = [i \in Players |-> TRUE]
    /\ issued = [i \in Players |-> [k \in CommandKinds |->
                    IF k \in {"Handshake", "RequestShips"} THEN 1 ELSE 0]]
    /\ asked = 0
    /\ returned = [i \in Players |-> [k \in CommandKinds |-> [t \in ResultKinds |-> 0]]]
    /\ sent = [i \in Players |-> [k \in ServerKinds |-> 0]]
    /\ listener = "join"
    /\ input = None
    /\ output = None
    /\ PartsIdle

\* the count of commands issued after the pair cmds
Counted(iss, cmds) == [i \in Players |-> [iss[i] EXCEPT ![cmds[i].type] = @ + 1]]

\* playturn returns: play goes on with its loop, leaves it for the cleanup,
\* or returns the error; the locals of playturn are gone
TurnReturns(pc2, turn2, boards2, res, iss) ==
    /\ pc' = pc2
    /\ turn' = turn2
    /\ boards' = boards2
    /\ info' = None
    /\ result' = res
    /\ issued' = iss

TurnFails(err, boards2, iss) ==
    TurnReturns("done", turn, boards2, Some(Err(err)), iss)

\* one call of Instance::playturn and the match on its result in play
PlayTurn ==
    /\ pc = "play"
    /\ LET po == getplayeropppair(turn, <<1, 2>>)
           player == po[1]
           opp == po[2]
           iss1 == Counted(issued, Pair(player, Plain("RequestTarget"),
                                        Plain("InformTargetSelection")))
       IN  /\ asked' = player
           /\ \E tres \in TargetResults(opp), selres \in AckResults :
                LET tgt == gettarget(tres)
                    acknowledged == informmw(Plain("InformTargetSelection"), selres)
                IN  IF ~acknowledged.ok THEN TurnFails(acknowledged.err, boards, iss1)
                    ELSE IF ~tgt.ok THEN TurnFails(tgt.err, boards, iss1)
                    ELSE
                    LET shot == target(boards[opp], tgt.val)
                        boards2 == [boards EXCEPT ![opp] = shot[2]]
                    IN  IF shot[1] = None
                        THEN TurnFails(Logic("OccupiedTargetPosition"), boards2, iss1)
                        ELSE
                        LET ai == Unwrap(shot[1])
                            notices == Pair(player, NoticeOpp(tgt.val, ai), NoticeYou(tgt.val, ai))
                            iss2 == Counted(iss1, notices)
                        IN  \E res1 \in AckResults, res2 \in AckResults :
                              LET success1 == informmw(notices[player], res1)
                                  success2 == informmw(notices[opp], res2)
                              IN  IF ~success1.ok THEN TurnFails(success1.err, boards2, iss2)
                                  ELSE IF ~success2.ok THEN TurnFails(success2.err, boards2, iss2)
                                  ELSE IF ai.kind = "Miss"
                                  THEN TurnReturns("play", (turn + 1) % U8, boards2, None, iss2)
                                  ELSE IF ~allsunken(boards2[opp])
                                  THEN TurnReturns("play", turn, boards2, None, iss2)
                                  ELSE
                                  LET outcome == Pair(player, Plain("InformVictory"), Plain("InformLoss"))
                                      iss3 == Counted(iss2, outcome)
                                      iss4 == Counted(iss3, [j \in Players |-> Plain("TerminateConnection")])
                                  IN  \E v1 \in AckResults, v2 \in AckResults :
                                        LET won == informmw(outcome[player], v1)
                                            lost == informmw(outcome[opp], v2)
                                        IN  IF ~won.ok THEN TurnFails(won.err, boards2, iss3)
                                            ELSE IF ~lost.ok THEN TurnFails(lost.err, boards2, iss3)
                                            ELSE \E t1 \in AckResults, t2 \in AckResults :
                                               LET bye1 == informmw(Plain("TerminateConnection"), t1)
                                                   bye2 == informmw(Plain("TerminateConnection"), t2)
                                               IN  IF ~bye1.ok THEN TurnFails(bye1.err, boards2, iss4)
                                                   ELSE IF ~bye2.ok THEN TurnFails(bye2.err, boards2, iss4)
                                                   ELSE TurnReturns("cleanup", turn, boards2, None, iss4)
    /\ UNCHANGED <<legs, legcmd, cmdq, resq, mwvars, s2c, c2s, peervars,
                   returned, sent, listener, purevars>>

\* Instance::play after its loop: the cleanup TerminateConnection, whose
\* results are dropped
PlayCleanup ==
    /\ pc = "cleanup"
    /\ pc' = "done"
    /\ result' = Some(Ok(Unit))
    /\ issued' = Counted(issued, [j \in Players |-> Plain("TerminateConnection")])
    /\ UNCHANGED <<turn, boards, legs, legcmd, info, asked, cmdq, resq, mwvars, s2c, c2s,
                   peervars, returned, sent, listener, purevars>>

TurnNext ==
    \/ PlayTurn
    \/ PlayCleanup

TurnSpec == TurnInit /\ [][TurnNext]_vars

\* play is polled until it returns, and every request is answered.  The
\* first conjunct is WF_vars(PlayTurn) written out for TurnSpec: a call of
\* playturn is possible exactly while play is in its loop, and a step of
\* TurnNext that leaves a state of the loop is a step of PlayTurn.
TurnFairness ==
    /\ []<>(pc # "play") \/ []<><<pc = "play">>_vars
    /\ WF_vars(PlayCleanup)

TurnFairSpec == TurnSpec /\ TurnFairness

(***************************************************************************)
(* C35: the turn counter, stored as an 8-bit unsigned integer, never       *)
(* overflows: in every reachable match state it stays below 256 because    *)
(* the number of increments is bounded by the number of cells that can be  *)
(* targeted before one fleet is fully sunk.                                *)
(***************************************************************************)
\* the cells of board b no ship covers, and those of them fired at
WaterCells(b) == {p \in Positions : b.shipmap[p] = U8MAX}
Misses == Cardinality(boards[1].hitmap \cap WaterCells(boards[1]))
          + Cardinality(boards[2].hitmap \cap WaterCells(boards[2]))

\* a water cell not fired at before is fired at in this step
MissScored ==
    \E i \in Players :
        /\ boards'[3 - i] = boards[3 - i]
        /\ \E p \in WaterCells(boards[i]) \ boards[i].hitmap :
              boards'[i].hitmap = boards[i].hitmap \cup {p}

C35_TurnNeverOverflows ==
    /\ [](/\ turn <= Misses
          /\ Misses <= Cardinality(WaterCells(boards[1])) + Cardinality(WaterCells(boards[2]))
          /\ Cardinality(WaterCells(boards[1])) + Cardinality(WaterCells(boards[2])) < U8)
    /\ [][turn' # turn => (turn' = turn + 1 /\ turn' < U8 /\ MissScored)]_vars

\* every water cell of both boards has been fired at and the turn counter
\* has counted each of these misses
C35_Witness ==
    /\ WaterCells(boards[1]) \subseteq boards[1].hitmap
    /\ WaterCells(boards[2]) \subseteq boards[2].hitmap
    /\ turn = Misses
    /\ turn > 2 * GRID * GRID - U8
    /\ pc = "play"

(***************************************************************************)
(* C36: the turn loop cannot run forever with responsive peers: every turn *)
(* either aborts the match or targets a previously untargeted cell of one  *)
(* of the two boards, so if each peer answers every request the match      *)
(* reaches Victory or Abort after at most 199 resolved turns.              *)
(***************************************************************************)
\* the turns begun, and the cells of the two boards fired at
TurnsBegun == issued[1]["RequestTarget"] + issued[2]["RequestTarget"]
CellsTargeted == Cardinality(boards[1].hitmap) + Cardinality(boards[2].hitmap)

\* the match has ended: with Victory and Loss sent, or with an error
VictoryOrAbort ==
    /\ pc = "done"
    /\ Unwrap(result).ok => VictoryLossIssued

C36_TurnLoopEnds ==
    /\ [](/\ TurnsBegun <= 2 * Cardinality(Positions) - 1
          /\ (pc = "play" => CellsTargeted = TurnsBegun))
    /\ [][pc = "play" =>
            \/ pc' = "done" /\ ~Unwrap(result').ok
            \/ /\ CellsTargeted' = CellsTargeted + 1
               /\ \E i \in Players : ~(boards'[i].hitmap \subseteq boards[i].hitmap)
               /\ \A i \in Players : boards[i].hitmap \subseteq boards'[i].hitmap]_vars
    /\ <>VictoryOrAbort

\* the longest match: 199 turns, every cell of board 2 and every cell but
\* one ship cell of board 1 fired at, won by player 1
C36_Witness ==
    /\ Succeeded
    /\ TurnsBegun = 2 * Cardinality(Positions) - 1
    /\ CellsTargeted = TurnsBegun
    /\ issued[1]["InformVictory"] = 1

(***************************************************************************)
(* The match with a peer that sends a fleet frame whose length byte makes  *)
(* the u8 sum in Ship::try_from overflow.  In a build with overflow checks *)
(* ClientMessage::try_from panics in the Middleware task (see              *)
(* ClientTryFromBuilds): the task unwinds and drops its ends of the two    *)
(* channels.                                                               *)
(***************************************************************************)
\* the reference fleet with the triple [1, 0x01, 255] for its first ship
OverflowFrame ==
    RawMessage(SHIPPOSITIONS, WithTriple(FleetBody(ReferenceFleet), 1, 1, 1, U8MAX))

\* peer i opens the connection with the overflowing fleet frame
PeerOverflow(i) ==
    /\ open[i]
    /\ ~hello[i]
    /\ hello' = [hello EXCEPT ![i] = TRUE]
    /\ c2s' = [c2s EXCEPT ![i] = Append(@, OverflowFrame)]
    /\ UNCHANGED <<instvars, cmdq, resq, mwvars, s2c, open, closedin, issued, asked,
                   returned, sent, listener, purevars>>

\* readmessage in handlecmd panics: the Middleware task ends without a result
MiddlewarePanic(i) ==
    /\ mwpc[i] = "read"
    /\ c2s[i] # <<>>
    /\ Panicked \in ClientTryFromBuilds(Head(c2s[i]))
    /\ c2s' = [c2s EXCEPT ![i] = Tail(@)]
    /\ mwpc' = [mwpc EXCEPT ![i] = "panicked"]
    /\ mwcmd' = [mwcmd EXCEPT ![i] = NoCmd]
    /\ UNCHANGED <<instvars, cmdq, resq, s2c, peervars, issued, asked, returned, sent,
                   listener, purevars>>

\* the coordinator is suspended in the recv of the result of Middleware i
AwaitsResult(i) ==
    \/ pc = (IF i = 1 THEN "handshake1" ELSE "handshake2")
    \/ pc \in JoinPcs /\ legs[i] = None

\* receiver.recv().await.unwrap(): recv returns None on the channel whose
\* sender the Middleware has dropped, and the Instance task panics
InstancePanic(i) ==
    /\ AwaitsResult(i)
    /\ resq[i] = <<>>
    /\ mwpc[i] = "panicked"
    /\ pc' = "done"
    /\ result' = Some(Panicked)
    /\ legs' = [j \in Players |-> None]
    /\ legcmd' = [j \in Players |-> NoCmd]
    /\ UNCHANGED <<turn, boards, info, cmdq, resq, mwvars, s2c, c2s, peervars,
                   issued, asked, returned, sent, listener, purevars>>

PanicNext ==
    \/ Next
    \/ \E i \in Players : PeerOverflow(i)
    \/ \E i \in Players : MiddlewarePanic(i)
    \/ \E i \in Players : InstancePanic(i)

PanicSpec == Init /\ [][PanicNext]_vars

(***************************************************************************)
(* C37: the coordinator never panics on a closed channel: in every         *)
(* interleaving, whenever the coordinator sends a command to or awaits a   *)
(* result from a Middleware, that Middleware task is still running with    *)
(* both channel ends open, because a Middleware only stops after the       *)
(* coordinator has dropped its command sender.                             *)
(***************************************************************************)
MiddlewareRunning(i) == mwpc[i] \in {"recv", "read"}

C37_CoordinatorNeverPanics ==
    /\ result # Some(Panicked)
    /\ \A i \in Players :
          /\ (AwaitsResult(i) \/ cmdq[i] # <<>>) /\ pc # "done" => MiddlewareRunning(i)
          /\ ~MiddlewareRunning(i) => pc = "done"

(***************************************************************************)
(* The match with the bundled client as both peers: the Instance and its   *)
(* two Middlewares as above, and for each player a Client in               *)
(* Client::connect and Client::play with an interface that never fails     *)
(* and whose selecttarget returns a cell that is still unknown in the      *)
(* opponent grid (tui.rs).  Here client and wire are per player.           *)
(***************************************************************************)
\* a selecttarget without the test of the opponent grid: any cell of the
\* other board that is a ship cell, the first one
UiTargets_anycell(i) ==
    {SetMin({p \in Positions : boards[3 - i].shipmap[p] # U8MAX})}

\* the cells interface.selecttarget lets player i select: those with no
\* entry in the opponent grid (tui.rs: valid).  Of these the first that is a
\* ship cell of the other board and, within MaxMiss and MissWindow, the last
\* that is a water cell are played.
UiTargets(i) ==
    LET unknown == {p \in Positions : client[i].opphits[p] = None}
        board == boards[3 - i]
        ship == {p \in Positions : board.shipmap[p] # U8MAX}
        misses == Cardinality(boards[1].hitmap \ {p \in Positions : boards[1].shipmap[p] # U8MAX})
                  + Cardinality(boards[2].hitmap \ {p \in Positions : boards[2].shipmap[p] # U8MAX})
    IN  (IF unknown \cap ship = {} THEN {} ELSE {SetMin(unknown \cap ship)})
        \cup (IF misses < MaxMiss /\ Cardinality(ship \cap board.hitmap) < MissWindow
                 /\ unknown \ ship # {}
              THEN {SetMax(unknown \ ship)} ELSE {})

\* listen has spawned the tasks of the match; each player has built a fleet
\* (interface.buildboard) and is about to connect
GameInit ==
    /\ MatchInit
    /\ input = None
    /\ output = None
    /\ soloboard = None
    /\ reported = None
    /\ client = [i \in Players |->
                    [ships    |-> TurnFleets[i],
                     selfhits |-> [p \in Positions |-> None],
                     opphits  |-> [p \in Positions |-> None],
                     message  |-> <<>>,
                     pc       |-> "connect",
                     victory  |-> None,
                     ret      |-> None]]
    /\ wire = [i \in Players |-> [read |-> 0, written |-> 0]]

\* the client of player i, with the fields c, returns res and drops its stream
GameReturnsAs(i, c, res) ==
    /\ client' = [client EXCEPT ![i] = Returns(c, res)]
    /\ open' = [open EXCEPT ![i] = FALSE]
    /\ closedin' = [closedin EXCEPT ![i] = pc]

GameReturns(i, res) == GameReturnsAs(i, client[i], res)

\* Client::connect up to its readmessage: the opening Handshake
GameConnect(i) ==
    /\ client[i].pc = "connect"
    /\ client' = [client EXCEPT ![i].pc = "hello"]
    /\ c2s' = [c2s EXCEPT ![i] = Append(@, ClientToRaw(ClientHandshake))]
    /\ wire' = [wire EXCEPT ![i].written = @ + 1]
    /\ hello' = [hello EXCEPT ![i] = TRUE]
    /\ UNCHANGED <<instvars, cmdq, resq, mwvars, s2c, open, closedin, issued, asked,
                   returned, sent, listener, input, output, boardvars>>

\* the interface calls of an arm of Client::play that may fail
UiRequests == {"RequestTarget", "InformVictory", "InformLoss"}

\* prot::readmessage of the client of player i can return: a frame is there
\* to read, or the Middleware has dropped its stream
GameReadable(i) == s2c[i] # <<>> \/ mwpc[i] = "exited"

\* Client::connect reads the reply to its Handshake and returns the Client;
\* play begins (its first displayboard touches nothing but the terminal)
GameHello(i) ==
    /\ client[i].pc = "hello"
    /\ GameReadable(i)
    /\ IF s2c[i] = <<>>
       THEN /\ GameReturns(i, Err(ClientProtocol(NetworkingError)))
            /\ UNCHANGED <<s2c, wire>>
       ELSE /\ s2c' = [s2c EXCEPT ![i] = Tail(@)]
            /\ wire' = [wire EXCEPT ![i].read = @ + 1]
            /\ LET read == ServerTryFrom(Head(s2c[i]))
               IN  IF ~read.ok
                   THEN GameReturns(i, Err(ClientProtocol(read.err)))
                   ELSE IF read.val.type # "Handshake"
                   THEN GameReturns(i, Err(ClientProtocol(UnsuccessfulHandshake)))
                   ELSE /\ client' = [client EXCEPT ![i].pc = "loop",
                                                    ![i].message = <<"SuccessfullyConnected">>]
                        /\ UNCHANGED <<open, closedin>>
    /\ UNCHANGED <<instvars, cmdq, resq, mwvars, c2s, hello, issued, asked,
                   returned, sent, listener, input, output, boardvars>>

\* one turn of the loop of Client::play of player i: readmessage, the match
\* on the request with its interface call, sendmessage of the response,
\* displayboard
GamePlay(i) ==
    /\ client[i].pc = "loop"
    /\ GameReadable(i)
    /\ IF s2c[i] = <<>>
       THEN /\ GameReturns(i, Err(ClientProtocol(NetworkingError)))
            /\ UNCHANGED <<s2c, c2s, wire>>
       ELSE
       /\ s2c' = [s2c EXCEPT ![i] = Tail(@)]
       /\ LET read == ServerTryFrom(Head(s2c[i]))
          IN  IF ~read.ok
              THEN /\ GameReturns(i, Err(ClientProtocol(read.err)))
                   /\ wire' = [wire EXCEPT ![i].read = @ + 1]
                   /\ UNCHANGED c2s
              ELSE IF read.val.type = "Handshake"
              THEN /\ GameReturns(i, Err(ClientNetworking("InvalidData")))
                   /\ wire' = [wire EXCEPT ![i].read = @ + 1]
                   /\ UNCHANGED c2s
              ELSE IF read.val.type = "TerminateConnection"
              THEN /\ GameReturns(i, terminated(client[i].victory))
                   /\ c2s' = [c2s EXCEPT ![i] = Append(@, ClientToRaw(ClientAcknowledge))]
                   /\ wire' = [wire EXCEPT ![i].read = @ + 1, ![i].written = @ + 1]
              ELSE \E called \in (IF read.val.type \in UiRequests THEN BOOLEAN ELSE {TRUE}) :
                     IF ~called
                     THEN /\ GameReturnsAs(i, PlayArm(client[i], read.val, PositionDefault).before,
                                          Err(ClientInterface))
                          /\ wire' = [wire EXCEPT ![i].read = @ + 1]
                          /\ UNCHANGED c2s
                     ELSE \E selected \in (IF read.val.type = "RequestTarget"
                                           THEN UiTargets(i) ELSE {PositionDefault}),
                             shown \in BOOLEAN :
                            LET arm == PlayArm(client[i], read.val, selected)
                            IN  /\ c2s' = [c2s EXCEPT ![i] = Append(@, ClientToRaw(arm.response))]
                                /\ wire' = [wire EXCEPT ![i].read = @ + 1,
                                                        ![i].written = @ + 1]
                                /\ IF shown
                                   THEN /\ client' = [client EXCEPT ![i] = arm.after]
                                        /\ UNCHANGED <<open, closedin>>
                                   ELSE GameReturnsAs(i, arm.after, Err(ClientInterface))
    /\ UNCHANGED <<instvars, cmdq, resq, mwvars, hello, issued, asked,
                   returned, sent, listener, input, output, boardvars>>

GameNext ==
    \/ InstanceRun
    \/ ListenJoined
    \/ \E i \in Players : HandshakeRecv(i)
    \/ \E i \in Players : JoinRecv(i)
    \/ \E i \in Players : MiddlewareRecv(i)
    \/ \E i \in Players : MiddlewareRead(i)
    \/ \E i \in Players : MiddlewareExit(i)
    \/ \E i \in Players : GameConnect(i)
    \/ \E i \in Players : GameHello(i)
    \/ \E i \in Players : GamePlay(i)

GameSpec == GameInit /\ [][GameNext]_vars

\* the Instance is between two turns or past the last one: the results of
\* both notices of every turn begun so far have been received
NoticesAcknowledged ==
    \/ pc \in {"gettarget", "victory", "terminate", "cleanup"}
    \/ Succeeded

Marked(grid) == {p \in Positions : grid[p] # None}
ShowsHit(grid, p) == grid[p] # None /\ Unwrap(grid[p]).kind = "Hit"

\* C38: whenever both notices of a turn have been acknowledged, the cells
\* marked in a player's own hit grid are the targeted cells of that player's
\* board on the server and the cells marked in the opponent's opponent grid,
\* and such a cell shows Hit in both grids exactly when the server board has
\* a ship there.
C38_ClientViewsRefineBoards ==
    NoticesAcknowledged =>
        \A i \in Players :
            /\ Marked(client[i].selfhits) = boards[i].hitmap
            /\ Marked(client[i].selfhits) = Marked(client[3 - i].opphits)
            /\ \A p \in Marked(client[i].selfhits) :
                  /\ ShowsHit(client[i].selfhits, p) <=> boards[i].shipmap[p] # U8MAX
                  /\ ShowsHit(client[3 - i].opphits, p) <=> boards[i].shipmap[p] # U8MAX

\* between two turns, with a hit and a miss marked in either player's own grid
C38_Witness ==
    /\ pc = "gettarget"
    /\ \A i \in Players :
          /\ \E p \in Positions : ShowsHit(client[i].selfhits, p)
          /\ \E p \in Positions : client[i].selfhits[p] = Some(Miss)
          /\ Marked(client[i].selfhits) = boards[i].hitmap

\* C39: in a match of two bundled clients the Instance never receives a cell
\* that is already targeted: its run never returns the logic error
\* OccupiedTargetPosition, and the join of a gettarget ends either with an
\* error that leaves the boards alone or with one more cell targeted on the
\* board of the opponent.
C39_OccupiedTargetUnreachable ==
    /\ [](result # Some(OccupiedTargetPosition))
    /\ [][(pc = "gettarget" /\ pc' # "gettarget") =>
            LET opp == getplayeropppair(turn, <<1, 2>>)[2]
            IN  \/ /\ pc' = "done"
                   /\ ~Unwrap(result').ok
                   /\ boards' = boards
                \/ /\ pc' = "inform"
                   /\ Unwrap(info').target \notin boards[opp].hitmap
                   /\ boards'[opp].hitmap = boards[opp].hitmap \cup {Unwrap(info').target}]_vars

\* a third cell of a board is targeted and its owner's opponent has the
\* first two marked in the opponent grid
C39_Witness ==
    /\ pc = "inform"
    /\ \E i \in Players :
          /\ Cardinality(boards[i].hitmap) >= 3
          /\ Cardinality(Marked(client[3 - i].opphits)) >= 2
          /\ Unwrap(info).target \in boards[i].hitmap
          /\ client[3 - i].opphits[Unwrap(info).target] = None

RECURSIVE CountOver(_, _)
CountOver(count, kinds) ==
    IF kinds = {} THEN 0
    ELSE LET k == CHOOSE x \in kinds : TRUE
         IN  count[k] + CountOver(count, kinds \ {k})

\* the frames the Middleware of player i has written to its peer after the
\* Handshake reply, which Client::connect reads and does not answer
ServerRequests(i) == CountOver(sent[i], ServerKinds \ {"Handshake"})

\* the frames the client of player i has written after its opening Handshake
ClientAnswers(i) == IF wire[i].written = 0 THEN 0 ELSE wire[i].written - 1

\* the client of player i has read TerminateConnection, answered it and
\* returned from play
AnsweredTerminate(i) ==
    /\ client[i].pc = "returned"
    /\ client[i].ret \in {Some(terminated(v)) : v \in {None, Some(TRUE), Some(FALSE)}}

\* a frame other than the Handshake reply is written to player i in this step
RequestWritten(i) ==
    \E k \in ServerKinds \ {"Handshake"} : sent'[i][k] # sent[i][k]

\* C40: on each connection the frames alternate server, client once the
\* Handshake of the client and the reply to it have opened the connection:
\* the server has written as many frames as the client has answered, or one
\* more, and it writes a frame only when every earlier frame is answered and
\* the peer has not answered TerminateConnection.
C40_WireLockstep ==
    /\ [](\A i \in Players :
            /\ ClientAnswers(i) <= ServerRequests(i)
            /\ ServerRequests(i) <= ClientAnswers(i) + 1)
    /\ [][\A i \in Players :
            RequestWritten(i) =>
                /\ ServerRequests(i) = ClientAnswers(i)
                /\ ~AnsweredTerminate(i)]_vars

====
